---- MODULE Spec2Model ----
(***************************************************************************)
(* Model of the COMPSs workflow-provenance crate builder                   *)
(* (compss/runtime/scripts/system/provenance).                             *)
(*                                                                         *)
(* Strings are sequences of one-character strings, so that the string      *)
(* operations of the code (sort, startswith, endswith, slicing,            *)
(* concatenation, urlsplit, pathlib) are computed, not assumed.            *)
(***************************************************************************)
EXTENDS Integers, Sequences, FiniteSets, TLC

VARIABLES
    pc,                 \* position of the operation under analysis
    url_list,           \* get_common_paths: its argument
    list_common_paths,  \* get_common_paths: its result
    yaml_value,         \* add_manual_datasets: compss_wf_info[yaml_term]
    data_list,          \* add_manual_datasets: the list it updates in place
    data_list_in,       \* the list as it was passed to the operation
    raised,             \* the exception that ended the operation, or "none"
    inputs_list,        \* fix_in_files_at_out_dirs: first argument
    outputs_list,       \* fix_in_files_at_out_dirs: second argument
    wf_info,            \* get_main_entities: the manifest keys it reads
    second_line,        \* get_main_entities: line 2 of dataprovenance.log
    cwd_files,          \* the files of the working directory that may be there
    scandir,            \* the order in which os.walk lists a directory
    main_entity,        \* get_main_entities: the mainEntity it returns
    persistence,        \* main: data_persistence of the manifest is True
    common_paths_impl,  \* which get_common_paths the build calls
    crate_calls,        \* the add_file / add_dataset calls made on the crate
    fixed_ins,          \* main: what add_dataset_file_to_crate returned, inputs
    fixed_outs,         \* main: the same for the outputs
    job_id,             \* wrroc_create_action: os.getenv("SLURM_JOB_ID")
    sacct,              \* what the accounting command does when it is run
    sacct_calls,        \* how many times the accounting command was run
    dp_log,             \* the lines of dataprovenance.log
    end_time,           \* wrroc_create_action: the end_time it is passed
    job_logs,           \* compss-<job_id>.out and .err are in the directory
    yaml_agent,         \* yaml_content: the Agent key
    author_list,        \* wrroc_create_action: the authors registered
    create_action,      \* the CreateAction entity added to the crate, or NONE
    yaml_authors,       \* yaml_content: the Authors key
    creator,            \* root_entity: compss_crate.creator, when it is set
    publisher,          \* root_entity: compss_crate.publisher, when it is set
    ignored,            \* how many persons were ignored for want of an orcid
    run_dir,            \* which files of the run are in the working directory
    added_files,        \* add_application_source_files: its added_files
    touched,            \* the .gitkeep files created in empty directories
    manifest,           \* main: what reading the manifest file gives
    yaml_data,          \* main: the inputs and outputs keys of the manifest
    accessed,           \* main: the accessed files the execution log holds
    completed,          \* main: the steps that have completed, in order
    writes,             \* main: how many times compss_crate.write was called
    written             \* main: the graph compss_crate.write was handed

cpVars  == <<url_list, list_common_paths>>
amdVars == <<yaml_value, data_list, data_list_in>>
fixVars == <<inputs_list, outputs_list>>
meVars  == <<wf_info, second_line, scandir, main_entity>>
buildVars == <<persistence, common_paths_impl, crate_calls, fixed_ins,
               fixed_outs>>
runVars == <<job_id, sacct, sacct_calls, dp_log, end_time, job_logs,
             yaml_agent, author_list, create_action>>
rootVars == <<yaml_authors, creator, publisher, ignored>>
srcVars == <<run_dir, added_files, touched>>
mainVars == <<manifest, yaml_data, accessed, completed, writes, written>>
vars    == <<pc, raised, cwd_files, cpVars, amdVars, fixVars, meVars,
             buildVars, runVars, rootVars, srcVars, mainVars>>

(***************************************************************************)
(* Bounds of the model.                                                    *)
(***************************************************************************)
MaxUrls == 4    \* longest dataset list handed to get_common_paths
MaxData == 3    \* longest runtime-detected list handed to add_manual_datasets
MaxYaml == 2    \* longest manifest inputs/outputs declaration
MaxFix  == 3    \* longest list handed to fix_in_files_at_out_dirs
MaxSources == 2 \* longest manifest sources declaration
MaxBuild == 2   \* longest list of inputs, and of outputs, of a build
MaxStats == 1   \* most resource-usage rows in dataprovenance.log
MaxAuthors == 3 \* longest Authors list of the manifest
MaxDeclared == 2 \* longest sources declaration of a source registration

(***************************************************************************)
(* Python strings.                                                         *)
(***************************************************************************)
\* The characters used, in increasing code-point order (str comparison).
Alphabet == <<"*", ".", "/", ":", "_", "a", "b", "c", "d", "e", "f", "g", "h", "i",
              "j", "k", "l", "m", "n", "o", "p", "q", "r", "s", "t", "u",
              "v", "x", "y", "z">>

Ord(c) == CHOOSE i \in 1..Len(Alphabet) : Alphabet[i] = c

Range(s) == {s[i] : i \in 1..Len(s)}

\* str.__lt__ : lexicographic comparison by code point
RECURSIVE StrLess(_, _)
StrLess(a, b) ==
    IF b = <<>> THEN FALSE
    ELSE IF a = <<>> THEN TRUE
    ELSE IF Head(a) = Head(b) THEN StrLess(Tail(a), Tail(b))
    ELSE Ord(Head(a)) < Ord(Head(b))

\* str.startswith
StartsWith(s, prefix) ==
    /\ Len(prefix) <= Len(s)
    /\ SubSeq(s, 1, Len(prefix)) = prefix

\* str.endswith
EndsWith(s, suffix) ==
    /\ Len(suffix) <= Len(s)
    /\ SubSeq(s, Len(s) - Len(suffix) + 1, Len(s)) = suffix

\* sub in s, for two strings
Contains(s, sub) ==
    \E i \in 1..(Len(s) - Len(sub) + 1) : SubSeq(s, i, i + Len(sub) - 1) = sub

PYCACHE  == <<"_", "_", "p", "y", "c", "a", "c", "h", "e", "_", "_">>
WILDCARD == <<"*">>

\* str.find, 1-based; 0 when the character does not occur
IndexOf(s, c) ==
    IF c \in Range(s) THEN CHOOSE i \in 1..Len(s) :
                               s[i] = c /\ \A j \in 1..(i - 1) : s[j] # c
    ELSE 0

\* list[a:b] with Python's 0-based, possibly negative, clamped bounds
PySlice(s, a, b) ==
    LET n  == Len(s)
        lo == IF a < 0 THEN (IF a + n < 0 THEN 0 ELSE a + n)
              ELSE (IF a > n THEN n ELSE a)
        hi == IF b < 0 THEN (IF b + n < 0 THEN 0 ELSE b + n)
              ELSE (IF b > n THEN n ELSE b)
    IN  SubSeq(s, lo + 1, hi)

\* Mutant of Sort: the list is left in the order it has
Sort_Unsorted(s) == s

\* list.sort() on a list of strings
RECURSIVE Insert(_, _)
Insert(x, s) ==
    IF s = <<>> THEN <<x>>
    ELSE IF StrLess(x, Head(s)) THEN <<x>> \o s
    ELSE <<Head(s)>> \o Insert(x, Tail(s))

RECURSIVE Sort(_)
Sort(s) == IF s = <<>> THEN <<>> ELSE Insert(Head(s), Sort(Tail(s)))

\* The sorted list holding the members of a set of strings
RECURSIVE SortedSeqOf(_)
SortedSeqOf(S) ==
    IF S = {} THEN <<>>
    ELSE LET m == CHOOSE x \in S : \A y \in S \ {x} : StrLess(x, y)
         IN  <<m>> \o SortedSeqOf(S \ {m})

\* list.remove(x): drops the first occurrence
RECURSIVE Remove(_, _)
Remove(s, x) ==
    IF s = <<>> THEN <<>>
    ELSE IF Head(s) = x THEN Tail(s)
    ELSE <<Head(s)>> \o Remove(Tail(s), x)

(***************************************************************************)
(* urllib.parse.urlsplit and pathlib / os.path                             *)
(***************************************************************************)
DIR   == <<"d", "i", "r">>
FILE  == <<"f", "i", "l", "e">>
HTTP  == <<"h", "t", "t", "p">>
HTTPS == <<"h", "t", "t", "p", "s">>
SEP   == <<"/">>

\* scheme + "://" + netloc + path
MkUrl(scheme, netloc, path) == scheme \o <<":", "/", "/">> \o netloc \o path

\* urlsplit(url): scheme, netloc and path of a URL; a string without
\* "scheme://" is all path
urlsplit(u) ==
    LET i == IndexOf(u, ":")
    IN  IF i = 0 \/ i + 2 > Len(u) \/ u[i + 1] # "/" \/ u[i + 2] # "/"
        THEN [scheme |-> <<>>, netloc |-> <<>>, path |-> u]
        ELSE LET rest == SubSeq(u, i + 3, Len(u))
                 j    == IndexOf(rest, "/")
             IN  [scheme |-> SubSeq(u, 1, i - 1),
                  netloc |-> IF j = 0 THEN rest ELSE SubSeq(rest, 1, j - 1),
                  path   |-> IF j = 0 THEN <<>>
                             ELSE SubSeq(rest, j, Len(rest))]

\* path.split("/") without the empty components
RECURSIVE Split(_, _)
Split(p, cur) ==
    IF p = <<>> THEN (IF cur = <<>> THEN <<>> ELSE <<cur>>)
    ELSE IF Head(p) = "/"
         THEN (IF cur = <<>> THEN <<>> ELSE <<cur>>) \o Split(Tail(p), <<>>)
         ELSE Split(Tail(p), Append(cur, Head(p)))

Components(p) == Split(p, <<>>)

\* "/" + "/".join(components)
RECURSIVE JoinTail(_)
JoinTail(comps) ==
    IF comps = <<>> THEN <<>>
    ELSE SEP \o Head(comps) \o JoinTail(Tail(comps))

JoinAbs(comps) == IF comps = <<>> THEN SEP ELSE JoinTail(comps)

\* str(Path(p).parents[0]) for an absolute path with at least one component
PathParent(p) ==
    LET comps == Components(p)
    IN  JoinAbs(SubSeq(comps, 1, Len(comps) - 1))

\* os.path.commonpath([a, b]) for two absolute paths
RECURSIVE CommonPrefix(_, _)
CommonPrefix(s, t) ==
    IF s = <<>> \/ t = <<>> \/ Head(s) # Head(t) THEN <<>>
    ELSE <<Head(s)>> \o CommonPrefix(Tail(s), Tail(t))

commonpath(a, b) == JoinAbs(CommonPrefix(Components(a), Components(b)))

(***************************************************************************)
(* utils/common_paths.py : get_common_paths                                *)
(***************************************************************************)
\* First loop (lines 42-58): directories become common paths, the index of
\* the first non-directory entry and of the first https entry are recorded.
\* Indexes are Python's (0-based, -1 when not found).
RECURSIVE ScanUrlList(_, _, _)
ScanUrlList(list, i, st) ==
    IF i > Len(list) THEN st
    ELSE LET url_parts == urlsplit(list[i])
         IN  IF url_parts.scheme = HTTPS
             THEN [st EXCEPT !.i_url = i - 1]
             ELSE IF url_parts.scheme = DIR
             THEN ScanUrlList(list, i + 1,
                     IF url_parts.path \in Range(st.paths) THEN st
                     ELSE [st EXCEPT !.paths = Append(@, url_parts.path)])
             ELSE ScanUrlList(list, i + 1,
                     IF st.file_found THEN st
                     ELSE [st EXCEPT !.i_files = i - 1, !.file_found = TRUE])

\* Second loop (lines 80-100): the running candidate common path
RECURSIVE WalkFiles(_, _, _)
WalkFiles(url_files_list, common_path, paths) ==
    IF url_files_list = <<>>
    THEN [common_path |-> common_path, paths |-> paths]
    ELSE LET path == urlsplit(Head(url_files_list)).path
             tmp  == commonpath(path, common_path)
         IN  IF tmp # SEP
             THEN WalkFiles(Tail(url_files_list), tmp, paths)
             ELSE WalkFiles(Tail(url_files_list), PathParent(path),
                     IF common_path \in Range(paths) THEN paths
                     ELSE Append(paths, common_path \o SEP))

\* Last loop (lines 107-109): every path ends with "/"
EndSlash(paths) ==
    [i \in 1..Len(paths) |->
        IF paths[i][Len(paths[i])] # "/" THEN paths[i] \o SEP ELSE paths[i]]

get_common_paths(list) ==
    IF list = <<>> THEN <<>>
    ELSE LET st == ScanUrlList(list, 1,
                     [paths |-> <<>>, i_files |-> -1, i_url |-> -1,
                      file_found |-> FALSE])
         IN  IF ~st.file_found THEN st.paths
             ELSE LET first == urlsplit(list[st.i_files + 1]).path
                      w     == WalkFiles(
                                   PySlice(list, st.i_files + 1, st.i_url),
                                   PathParent(first), st.paths)
                      last  == IF w.common_path \in Range(w.paths)
                               THEN w.paths
                               ELSE Append(w.paths, w.common_path)
                  IN  EndSlash(last)

(***************************************************************************)
(* generate_COMPSs_RO-Crate.py : its own get_common_paths, the one main    *)
(* calls                                                                   *)
(***************************************************************************)
\* lines 570-582: the leading dir:// entries are common paths; i is the
\* (0-based) index of the first entry that is not a directory
RECURSIVE MainScanDirs(_, _)
MainScanDirs(list, st) ==
    IF st.i >= Len(list) THEN st
    ELSE LET url_parts == urlsplit(list[st.i + 1])
         IN  IF url_parts.scheme = DIR
             THEN MainScanDirs(list,
                     [st EXCEPT !.i = @ + 1,
                                !.paths = IF url_parts.path \in Range(@) THEN @
                                          ELSE Append(@, url_parts.path)])
             ELSE [st EXCEPT !.file_found = TRUE]

\* lines 596-616: the running candidate common path
RECURSIVE MainWalkFiles(_, _, _)
MainWalkFiles(url_files_list, common_path, paths) ==
    IF url_files_list = <<>>
    THEN [common_path |-> common_path, paths |-> paths]
    ELSE LET path == urlsplit(Head(url_files_list)).path
             tmp  == commonpath(path, common_path)
         IN  IF tmp # SEP
             THEN MainWalkFiles(Tail(url_files_list), tmp, paths)
             ELSE MainWalkFiles(Tail(url_files_list), PathParent(path),
                     IF common_path \in Range(paths) THEN paths
                     ELSE Append(paths, common_path))

\* lines 623-626: the list is appended to and removed from while the for loop
\* walks it by position (i is the 1-based position of the iterator)
RECURSIVE MainEndSlash(_, _)
MainEndSlash(paths, i) ==
    IF i > Len(paths) THEN paths
    ELSE LET item == paths[i]
         IN  IF item[Len(item)] # "/"
             THEN MainEndSlash(Remove(Append(paths, item \o SEP), item), i + 1)
             ELSE MainEndSlash(paths, i + 1)

main_get_common_paths(list) ==
    IF list = <<>> THEN <<>>
    ELSE LET st == MainScanDirs(list, [paths |-> <<>>, i |-> 0,
                                       file_found |-> FALSE])
         IN  IF ~st.file_found THEN st.paths
             ELSE LET first == urlsplit(list[st.i + 1]).path
                      w     == MainWalkFiles(PySlice(list, st.i + 1, Len(list)),
                                   PathParent(first), st.paths)
                      last  == IF w.common_path \in Range(w.paths)
                               THEN w.paths
                               ELSE Append(w.paths, w.common_path)
                  IN  MainEndSlash(last, 1)

(***************************************************************************)
(* Dataset URLs the runtime and the manifest can name                      *)
(***************************************************************************)
HOST   == <<"h">>      \* socket.gethostname()
REMOTE == <<"r">>      \* host of the remote references

P_a   == <<"/", "a">>
P_ab  == <<"/", "a", "/", "b">>
P_c   == <<"/", "c">>
P_ax  == <<"/", "a", "/", "x">>
P_abx == <<"/", "a", "/", "b", "/", "x">>
P_cy  == <<"/", "c", "/", "y">>
P_dy  == <<"/", "d", "/", "y">>
P_u   == <<"/", "u">>

DirUrls    == {MkUrl(DIR, HOST, P_a \o SEP), MkUrl(DIR, HOST, P_ab \o SEP),
               MkUrl(DIR, HOST, P_c)}
FileUrls   == {MkUrl(FILE, HOST, P_ax), MkUrl(FILE, HOST, P_abx),
               MkUrl(FILE, HOST, P_cy), MkUrl(FILE, HOST, P_dy)}
RemoteUrls == {MkUrl(HTTP, REMOTE, P_u), MkUrl(HTTPS, REMOTE, P_u)}

UrlUniverse == DirUrls \cup FileUrls \cup RemoteUrls

SortedLists(U, n) == {SortedSeqOf(S) : S \in {T \in SUBSET U : Cardinality(T) <= n}}

IsLocal(url) == urlsplit(url).scheme \in {DIR, FILE}

(***************************************************************************)
(* The file system seen by the builder                                     *)
(***************************************************************************)
P_d == <<"/", "d">>
P_s == <<"/", "s">>

\* The application sources
N_mpy   == <<"m", ".", "p", "y">>
N_dmpy  == <<"d", "m", ".", "p", "y">>
N_njava == <<"n", ".", "j", "a", "v", "a">>
N_rtxt  == <<"r", ".", "t", "x", "t">>
P_p     == <<"/", "p">>
P_pl    == <<"/", "p", "/", "l">>
P_pk    == <<"/", "p", "/", "k">>
P_q     == <<"/", "q">>
P_n     == <<"/", "n">>
P_pm    == P_p \o SEP \o N_mpy         \* /p/m.py
P_pdm   == P_p \o SEP \o N_dmpy        \* /p/dm.py
P_plm   == P_pl \o SEP \o N_mpy        \* /p/l/m.py
P_pkn   == P_pk \o SEP \o N_njava      \* /p/k/n.java
P_qr    == P_q \o SEP \o N_rtxt        \* /q/r.txt
P_am    == P_a \o SEP \o N_mpy         \* /a/m.py, in the working directory
P_an    == P_a \o SEP \o N_njava       \* /a/n.java, in the working directory

\* Two sibling source directories whose names share a string prefix, with a
\* compiled-cache directory, a wildcard link and an empty directory
P_e     == <<"/", "e">>
P_es    == P_e \o SEP \o <<"s">>              \* /e/s
P_esz   == P_e \o SEP \o <<"s", "z">>         \* /e/sz
P_esv   == P_es \o SEP \o <<"v">>             \* /e/s/v, empty
P_esc   == P_es \o SEP \o PYCACHE            \* /e/s/__pycache__
P_esm   == P_es \o SEP \o N_mpy              \* /e/s/m.py
P_esw   == P_es \o SEP \o WILDCARD \o N_mpy  \* /e/s/*m.py
P_escm  == P_esc \o SEP \o N_mpy             \* /e/s/__pycache__/m.py
P_eszn  == P_esz \o SEP \o N_njava           \* /e/sz/n.java

CWD     == P_a                             \* os.getcwd()
FsDirs  == {SEP, P_a, P_ab, P_c, P_d, P_p, P_pl, P_pk, P_q,
            P_e, P_es, P_esz, P_esv, P_esc}                  \* os.path.isdir
FsFiles == {P_ax, P_abx, P_cy, P_dy, P_pm, P_pdm, P_plm, P_pkn, P_qr,
            P_esm, P_esw, P_escm, P_eszn}
               \cup cwd_files                                \* os.path.isfile
FsOther == {P_s}                           \* exists, neither file nor dir
P_t     == <<"/", "t">>
FsBrokenLinks == {P_t}                     \* symbolic links to a removed target

\* str(Path(item).expanduser().resolve()): absolute, no trailing separator
Resolve(item) ==
    IF item # <<>> /\ item[1] = "/" THEN JoinAbs(Components(item))
    ELSE JoinAbs(Components(CWD \o SEP \o item))

\* Path.exists() and os.path.exists() follow symbolic links: a link whose
\* target was removed does not exist
PathExists(p) == Resolve(p) \in FsDirs \cup FsFiles \cup FsOther
IsFile(p)     == Resolve(p) \in FsFiles
IsDir(p)      == Resolve(p) \in FsDirs

GPFS_HOME == <<"/", "g", "p", "f", "s", "/", "h", "o", "m", "e", "/">>

\* The variables of get_main_entities, where it is not called
Absent == [present |-> FALSE, is_list |-> TRUE, value |-> <<>>]

NoMainEntityCall ==
    /\ wf_info = [sources |-> Absent, files |-> Absent, sources_dir |-> Absent,
                  sources_main_file |-> Absent]
    /\ second_line = <<>>
    /\ cwd_files = {}
    /\ scandir = [files_desc |-> FALSE, dirs_desc |-> FALSE]
    /\ main_entity = <<>>

\* The variables of the dataset assembly, where it is not run
NoBuildCall ==
    /\ persistence = FALSE
    /\ common_paths_impl = "utils"
    /\ crate_calls = <<>>
    /\ fixed_ins = <<>>
    /\ fixed_outs = <<>>

\* The variables of wrroc_create_action, where it is not called
NoRunCall ==
    /\ job_id = <<>>
    /\ sacct = [kind |-> "no_command"]
    /\ sacct_calls = 0
    /\ dp_log = <<>>
    /\ end_time = 0
    /\ job_logs = FALSE
    /\ yaml_agent = [present |-> FALSE]
    /\ author_list = <<>>
    /\ create_action = <<>>

\* The variables of root_entity, where it is not called
NoRootCall ==
    /\ yaml_authors = [present |-> FALSE]
    /\ creator = <<>>
    /\ publisher = <<>>
    /\ ignored = 0

\* The variables of add_application_source_files, where it is not called
NoSourceCall ==
    /\ run_dir = [graph |-> FALSE, profile |-> FALSE, command_line |-> FALSE]
    /\ added_files = <<>>
    /\ touched = {}

\* The variables of main, where the operations are called on their own
NoMainCall ==
    /\ manifest = "loaded"
    /\ yaml_data = <<>>
    /\ accessed = <<>>
    /\ completed = <<>>
    /\ writes = 0
    /\ written = <<>>

(***************************************************************************)
(* processing/entities.py : get_main_entities                              *)
(***************************************************************************)
NONE == <<>>        \* Python's None, where a path is expected

\* A manifest key: absent, a list, or a single value
YamlList(key) ==
    IF ~key.present THEN <<>>
    ELSE IF key.is_list THEN key.value
    ELSE <<key.value>>

\* lines 172-189: sources, files and sources_dir are merged in this order
YamlSourcesList(wf) ==
    YamlList(wf.sources) \o YamlList(wf.files) \o YamlList(wf.sources_dir)

\* line 192: not any(key in wf_info for key in keys)
NoSourcesKey(wf) ==
    ~wf.sources.present /\ ~wf.files.present /\ ~wf.sources_dir.present

\* Index of the last occurrence of a character; 0 when it does not occur
LastIndexOf(s, c) ==
    IF c \in Range(s) THEN CHOOSE i \in 1..Len(s) :
                               s[i] = c /\ \A j \in (i + 1)..Len(s) : s[j] # c
    ELSE 0

\* Path(p).name : the last component
BaseName(p) ==
    LET comps == Components(p)
    IN  IF comps = <<>> THEN <<>> ELSE comps[Len(comps)]

\* Path(p).suffix : the extension of the last component, with its dot
PathSuffix(p) ==
    LET name == BaseName(p)
        i    == LastIndexOf(name, ".")
    IN  IF i <= 1 \/ i = Len(name) THEN <<>> ELSE SubSeq(name, i, Len(name))

\* lines 224-229 and 247-252
SourceSuffixes == {<<".", "p", "y">>, <<".", "j", "a", "v", "a">>,
                   <<".", "j", "a", "r">>, <<".", "c", "l", "a", "s", "s">>}

DOT_PY   == <<".", "p", "y">>
DOT_JAVA == <<".", "j", "a", "v", "a">>

\* str.replace(".", "/")
RECURSIVE DotsToSlashes(_)
DotsToSlashes(s) ==
    IF s = <<>> THEN <<>>
    ELSE <<IF Head(s) = "." THEN "/" ELSE Head(s)>> \o DotsToSlashes(Tail(s))

\* str.split(".")[-1]
LastDotPart(s) == SubSeq(s, LastIndexOf(s, ".") + 1, Len(s))

\* lines 199-205: the candidate looked up in the working directory
DetectedAppNoSources(line) ==
    IF EndsWith(line, DOT_PY) THEN line ELSE LastDotPart(line) \o DOT_JAVA

\* lines 283-289: the candidate looked up among the source files
DetectedApp(line) ==
    IF EndsWith(line, DOT_PY) THEN line ELSE DotsToSlashes(line) \o DOT_JAVA

\* os.path.join(a, b)
PathJoin(a, b) ==
    IF b # <<>> /\ b[1] = "/" THEN b
    ELSE IF a = <<>> \/ a[Len(a)] = "/" THEN a \o b
    ELSE a \o SEP \o b

Reverse(s) == [i \in 1..Len(s) |-> s[Len(s) + 1 - i]]

\* The entries of a directory in the order os.walk reports them
Listed(S, desc) == IF desc THEN Reverse(SortedSeqOf(S)) ELSE SortedSeqOf(S)

FileNamesIn(dir) == {BaseName(f) : f \in {g \in FsFiles : PathParent(g) = dir}}
DirNamesIn(dir)  ==
    {BaseName(d) : d \in {e \in FsDirs : e # SEP /\ PathParent(e) = dir}}

\* os.walk(top, topdown=True): the (root, file name) pairs, root first
RECURSIVE Walk(_)
Walk(root) ==
    LET files == Listed(FileNamesIn(root), scandir.files_desc)
        dirs  == Listed(DirNamesIn(root), scandir.dirs_desc)
        here  == [i \in 1..Len(files) |-> [root |-> root, f_name |-> files[i]]]
        RECURSIVE Below(_)
        Below(ds) == IF ds = <<>> THEN <<>>
                     ELSE Walk(PathJoin(root, Head(ds))) \o Below(Tail(ds))
    IN  here \o Below(dirs)

\* lines 235-253: the files of a declared directory
RECURSIVE AddWalked(_, _)
AddWalked(walked, st) ==
    IF walked = <<>> THEN st
    ELSE LET f_name    == Head(walked).f_name
             full_name == PathJoin(Head(walked).root, f_name)
         IN  AddWalked(Tail(walked),
                 IF Contains(Head(walked).root, PYCACHE)
                    \/ StartsWith(f_name, WILDCARD)
                 THEN st
                 ELSE
                 [list_of_sources |-> Append(st.list_of_sources, full_name),
                  backup_main_entity |->
                      IF st.backup_main_entity = NONE
                         /\ PathSuffix(f_name) \in SourceSuffixes
                      THEN full_name ELSE st.backup_main_entity])

\* lines 218-264: the full list of source files and the backup main entity
RECURSIVE CollectSources(_, _)
CollectSources(sources, st) ==
    IF sources = <<>> THEN st
    ELSE LET source == Head(sources)
             resolved_source == Resolve(source)
         IN  CollectSources(Tail(sources),
                 IF ~PathExists(source) THEN st
                 ELSE IF IsFile(resolved_source)
                 THEN [list_of_sources |->
                           Append(st.list_of_sources, resolved_source),
                       backup_main_entity |->
                           IF st.backup_main_entity = NONE
                              /\ PathSuffix(source) \in SourceSuffixes
                           THEN resolved_source ELSE st.backup_main_entity]
                 ELSE IF IsDir(resolved_source)
                 THEN AddWalked(Walk(resolved_source), st)
                 ELSE st)

\* Mutant of WithBackup: only a file with a source extension is a backup
WithBackup_SourceFilesOnly(st) == st

\* lines 267-275: any file is the backup when none has a source extension
WithBackup(st) ==
    IF Len(st.list_of_sources) # 0 /\ st.backup_main_entity = NONE
    THEN [st EXCEPT !.backup_main_entity = st.list_of_sources[1]]
    ELSE st

\* Mutant of FirstEndingWith: the search goes on after a match, so the last
\* source file that ends with the candidate is taken
RECURSIVE FirstEndingWith_NoBreak(_, _)
FirstEndingWith_NoBreak(list_of_sources, suffix) ==
    IF list_of_sources = <<>> THEN NONE
    ELSE LET later == FirstEndingWith_NoBreak(Tail(list_of_sources), suffix)
         IN  IF later # NONE THEN later
             ELSE IF EndsWith(Head(list_of_sources), suffix)
             THEN Head(list_of_sources)
             ELSE NONE

\* lines 294-300: the first source file that ends with the candidate
RECURSIVE FirstEndingWith(_, _)
FirstEndingWith(list_of_sources, suffix) ==
    IF list_of_sources = <<>> THEN NONE
    ELSE IF EndsWith(Head(list_of_sources), suffix) THEN Head(list_of_sources)
    ELSE FirstEndingWith(Tail(list_of_sources), suffix)

\* lines 336-372: the first source file that is, or ends with, the override
RECURSIVE FindOverride(_, _, _)
FindOverride(list_of_sources, resolved_sources_main_file, smf) ==
    IF list_of_sources = <<>> THEN NONE
    ELSE IF Head(list_of_sources) = resolved_sources_main_file
    THEN resolved_sources_main_file
    ELSE IF EndsWith(Head(list_of_sources), smf) THEN Head(list_of_sources)
    ELSE FindOverride(Tail(list_of_sources), resolved_sources_main_file, smf)

\* Mutant of SearchOverride: an override that no directory holds discards
\* the main entity identified from the log
RECURSIVE SearchOverride_DropsDetected(_, _, _, _)
SearchOverride_DropsDetected(sources, list_of_sources, smf, me) ==
    IF sources = <<>> THEN NONE
    ELSE LET source == Head(sources)
         IN  IF ~PathExists(source) \/ IsFile(source)
             THEN SearchOverride_DropsDetected(Tail(sources), list_of_sources,
                                               smf, me)
             ELSE LET hit  == FindOverride(list_of_sources,
                                  PathJoin(Resolve(source), smf), smf)
                      rest == SearchOverride_DropsDetected(Tail(sources),
                                  list_of_sources, smf, me)
                  IN  IF rest # NONE THEN rest ELSE hit

\* lines 328-372: the override is looked up in every declared directory
RECURSIVE SearchOverride(_, _, _, _)
SearchOverride(sources, list_of_sources, smf, me) ==
    IF sources = <<>> THEN me
    ELSE LET source == Head(sources)
         IN  IF ~PathExists(source) \/ IsFile(source)
             THEN SearchOverride(Tail(sources), list_of_sources, smf, me)
             ELSE LET hit == FindOverride(list_of_sources,
                                 PathJoin(Resolve(source), smf), smf)
                  IN  SearchOverride(Tail(sources), list_of_sources, smf,
                          IF hit # NONE THEN hit ELSE me)

\* The list of source files get_main_entities builds
ListOfSources(wf) ==
    CollectSources(YamlSourcesList(wf),
        [list_of_sources |-> <<>>, backup_main_entity |-> NONE]).list_of_sources

\* lines 303-377: the warning that the override is not one of the sources
\* (found stays False)
OverrideNotFoundWarning(wf) ==
    /\ wf.sources_main_file.present
    /\ ~IsFile(wf.sources_main_file.value)
    /\ SearchOverride(YamlSourcesList(wf), ListOfSources(wf),
                      wf.sources_main_file.value, NONE) = NONE

get_main_entities(wf, line) ==
    LET no_key == NoSourcesKey(wf)
        cwd_app == DetectedAppNoSources(line)
    IN  IF no_key /\ ~IsFile(cwd_app)
        THEN [main_entity |-> NONE, raised |-> "KeyError"]
        ELSE
        LET me0  == IF no_key THEN cwd_app ELSE NONE
            st   == WithBackup(CollectSources(YamlSourcesList(wf),
                        [list_of_sources |-> <<>>,
                         backup_main_entity |-> NONE]))
            hit  == FirstEndingWith(st.list_of_sources, DetectedApp(line))
            me1  == IF hit # NONE THEN hit ELSE me0
            smf  == wf.sources_main_file.value
            me2  == IF ~wf.sources_main_file.present THEN me1
                    ELSE IF IsFile(smf) THEN Resolve(smf)
                    ELSE SearchOverride(YamlSourcesList(wf),
                                        st.list_of_sources, smf, me1)
        IN  IF me2 # NONE THEN [main_entity |-> me2, raised |-> "none"]
            ELSE IF st.backup_main_entity = NONE
            THEN [main_entity |-> NONE, raised |-> "FileNotFoundError"]
            ELSE [main_entity |-> st.backup_main_entity, raised |-> "none"]

(***************************************************************************)
(* file_adding/dataset_files.py : add_manual_datasets                      *)
(***************************************************************************)
\* lines 319-323: a scalar declaration is a list of one entry
DataEntitiesList(v) == IF v.is_list THEN v.value ELSE <<v.value>>

\* lines 324-366: the entries declared by the user are appended
RECURSIVE AppendDeclared(_, _)
AppendDeclared(items, dl) ==
    IF items = <<>> THEN [data_list |-> dl, raised |-> "none"]
    ELSE LET item == Head(items)
             url_parts == urlsplit(item)
         IN  IF StartsWith(url_parts.scheme, HTTP)
             THEN AppendDeclared(Tail(items), Append(dl, item))
             ELSE IF ~PathExists(item)
             THEN AppendDeclared(Tail(items), dl)
             ELSE LET first_resolved_data_entity == Resolve(item)
                      resolved_data_entity ==
                          IF StartsWith(first_resolved_data_entity, GPFS_HOME)
                          THEN PySlice(first_resolved_data_entity, 5,
                                       Len(first_resolved_data_entity))
                          ELSE first_resolved_data_entity
                  IN  IF IsFile(resolved_data_entity)
                      THEN LET new == MkUrl(FILE, HOST, resolved_data_entity)
                           IN  AppendDeclared(Tail(items),
                                   IF new \in Range(dl) THEN dl
                                   ELSE Append(dl, new))
                      ELSE IF IsDir(resolved_data_entity)
                      THEN LET new == MkUrl(DIR, HOST,
                                            resolved_data_entity \o SEP)
                           IN  AppendDeclared(Tail(items),
                                   IF new \in Range(dl) THEN dl
                                   ELSE Append(dl, new))
                      ELSE [data_list |-> dl, raised |-> "FileNotFoundError"]

\* lines 372-388: the leading dir:// entries that no earlier one contains
RECURSIVE LeadingDirs(_, _)
LeadingDirs(dl, st) ==
    IF dl = <<>> THEN st
    ELSE LET url_parts == urlsplit(Head(dl))
         IN  IF url_parts.scheme = DIR
             THEN LeadingDirs(Tail(dl),
                     IF url_parts.path \notin Range(st.directories_list)
                        /\ ~\E k \in 1..Len(st.directories_list) :
                              StartsWith(url_parts.path, st.directories_list[k])
                     THEN [st EXCEPT !.directories_list =
                                         Append(@, url_parts.path)]
                     ELSE st)
             ELSE [st EXCEPT !.file_found = TRUE]

\* Mutant of RemoveInside: only file:// entries are removed
RECURSIVE RemoveInside_FilesOnly(_, _, _)
RemoveInside_FilesOnly(copy, dl, directories_list) ==
    IF copy = <<>> THEN dl
    ELSE LET url_parts == urlsplit(Head(copy))
         IN  RemoveInside_FilesOnly(Tail(copy),
                 IF /\ url_parts.scheme = FILE
                    /\ \E k \in 1..Len(directories_list) :
                           /\ url_parts.path # directories_list[k]
                           /\ StartsWith(url_parts.path, directories_list[k])
                 THEN Remove(dl, Head(copy))
                 ELSE dl,
                 directories_list)

\* lines 395-406: every entry inside one of the directories is removed
RECURSIVE RemoveInside(_, _, _)
RemoveInside(copy, dl, directories_list) ==
    IF copy = <<>> THEN dl
    ELSE LET path == urlsplit(Head(copy)).path
         IN  RemoveInside(Tail(copy),
                 IF \E k \in 1..Len(directories_list) :
                        /\ path # directories_list[k]
                        /\ StartsWith(path, directories_list[k])
                 THEN Remove(dl, Head(copy))
                 ELSE dl,
                 directories_list)

\* Mutant of Subsume: the list is walked while entries are removed from it,
\* so the entry that follows a removed one is skipped
RECURSIVE RemoveWhileIterating(_, _, _)
RemoveWhileIterating(dl, i, directories_list) ==
    IF i > Len(dl) THEN dl
    ELSE LET path == urlsplit(dl[i]).path
         IN  IF \E k \in 1..Len(directories_list) :
                    /\ path # directories_list[k]
                    /\ StartsWith(path, directories_list[k])
             THEN RemoveWhileIterating(Remove(dl, dl[i]), i + 1,
                                       directories_list)
             ELSE RemoveWhileIterating(dl, i + 1, directories_list)

Subsume_WhileIterating(dl) ==
    LET st == LeadingDirs(dl, [directories_list |-> <<>>,
                               file_found |-> FALSE])
    IN  IF st.file_found
        THEN RemoveWhileIterating(dl, 1, st.directories_list)
        ELSE dl

Subsume(dl) ==
    LET st == LeadingDirs(dl, [directories_list |-> <<>>,
                               file_found |-> FALSE])
    IN  IF st.file_found THEN RemoveInside(dl, dl, st.directories_list)
        ELSE dl

add_manual_datasets(v, dl) ==
    LET a == AppendDeclared(DataEntitiesList(v), dl)
    IN  IF a.raised # "none" THEN a
        ELSE [data_list |-> Subsume(Sort(a.data_list)), raised |-> "none"]

(***************************************************************************)
(* utils/url_fixes.py : fix_in_files_at_out_dirs                           *)
(***************************************************************************)
\* Mutant of OutputDirs: the directories are dropped when the outputs also
\* hold an entry that is not a directory
OutputDirs_AllDirsOnly(outs, directories_list) ==
    IF \E i \in 1..Len(outs) : urlsplit(outs[i]).scheme # DIR THEN <<>>
    ELSE [i \in 1..Len(outs) |-> urlsplit(outs[i]).path]

\* lines 57-66: the paths of the leading dir:// entries of the outputs
RECURSIVE OutputDirs(_, _)
OutputDirs(outs, directories_list) ==
    IF outs = <<>> THEN directories_list
    ELSE LET url_parts == urlsplit(Head(outs))
         IN  IF url_parts.scheme = DIR
             THEN OutputDirs(Tail(outs),
                     IF url_parts.path \in Range(directories_list)
                     THEN directories_list
                     ELSE Append(directories_list, url_parts.path))
             ELSE directories_list

\* lines 68-76: the number of leading dir:// entries of the inputs
RECURSIVE CountLeadingDirs(_)
CountLeadingDirs(ins) ==
    IF ins = <<>> \/ urlsplit(Head(ins)).scheme # DIR THEN 0
    ELSE 1 + CountLeadingDirs(Tail(ins))

\* lines 81-88: the inputs inside an output directory are removed
RECURSIVE RemoveShadowed(_, _, _)
RemoveShadowed(url_files_list, ins, directories_list) ==
    IF url_files_list = <<>> THEN ins
    ELSE LET path == urlsplit(Head(url_files_list)).path
         IN  RemoveShadowed(Tail(url_files_list),
                 IF \E k \in 1..Len(directories_list) :
                        StartsWith(path, directories_list[k])
                 THEN Remove(ins, Head(url_files_list))
                 ELSE ins,
                 directories_list)

fix_in_files_at_out_dirs(ins, outs) ==
    LET directories_list == OutputDirs(outs, <<>>)
        i == CountLeadingDirs(ins)
    IN  IF i = Len(ins) THEN ins
        ELSE RemoveShadowed(PySlice(ins, i, Len(ins)), ins, directories_list)

(***************************************************************************)
(* utils/url_fixes.py : fix_dir_url                                        *)
(***************************************************************************)
fix_dir_url_NoEndSlash(in_url) ==
    LET runtime_url == urlsplit(in_url)
    IN  IF runtime_url.scheme = DIR
        THEN MkUrl(FILE, runtime_url.netloc, runtime_url.path)
        ELSE in_url

fix_dir_url(in_url) ==
    LET runtime_url == urlsplit(in_url)
    IN  IF runtime_url.scheme = DIR
        THEN LET new_url == MkUrl(FILE, runtime_url.netloc, runtime_url.path)
             IN  IF new_url[Len(new_url)] # "/" THEN new_url \o SEP
                 ELSE new_url
        ELSE in_url

(***************************************************************************)
(* file_adding/dataset_files.py : add_dataset_file_to_crate                *)
(***************************************************************************)
DATASET  == <<"d", "a", "t", "a", "s", "e", "t", "/">>       \* "dataset/"
GITKEEP  == <<".", "g", "i", "t", "k", "e", "e", "p">>       \* ".gitkeep"
\* Path(p).parts[-1]: the last component, or the root of a path without any
PathLastPart(p) ==
    LET comps == Components(p)
    IN  IF comps # <<>> THEN comps[Len(comps)]
        ELSE IF p = SEP \o SEP THEN p ELSE SEP

\* A call on the crate: the method and the identifier the entity gets, which
\* is dest_path when one is given and the source URL otherwise
AddFile(dest)    == [op |-> "add_file", dest |-> dest]
AddDataset(dest) == [op |-> "add_dataset", dest |-> dest]

\* lines 60-90: the destination of a local file in the crate
RECURSIVE CratePath(_, _)
CratePath(path, common_paths) ==
    IF common_paths = <<>> THEN <<>>
    ELSE LET item == Head(common_paths)
         IN  IF StartsWith(path, item)
             THEN LET cwd_endslash == CWD \o SEP
                      cwd_final == IF StartsWith(cwd_endslash, GPFS_HOME)
                                   THEN PySlice(cwd_endslash, 5,
                                                Len(cwd_endslash))
                                   ELSE cwd_endslash
                      rest == PySlice(path, Len(item), Len(path))
                  IN  IF cwd_final = item THEN DATASET \o rest
                      ELSE DATASET \o PathLastPart(item) \o SEP \o rest
             ELSE CratePath(path, Tail(common_paths))

\* os.listdir(dir) is empty
EmptyDirectory(dir) ==
    LET d == JoinAbs(Components(dir))
    IN  FileNamesIn(d) = {} /\ DirNamesIn(d) = {}
            /\ ~\E o \in FsOther : PathParent(o) = d

\* lines 117-124: os.walk(top, topdown=True) with dirs and files sorted
RECURSIVE DatasetWalk(_)
DatasetWalk(root) ==
    LET d     == JoinAbs(Components(root))
        files == SortedSeqOf(FileNamesIn(d))
        dirs  == SortedSeqOf(DirNamesIn(d))
        RECURSIVE Below(_)
        Below(ds) == IF ds = <<>> THEN <<>>
                     ELSE DatasetWalk(PathJoin(root, Head(ds)))
                              \o Below(Tail(ds))
    IN  <<[root |-> root, dirs |-> dirs, files |-> files]>> \o Below(dirs)

\* lines 125-166: the files of one directory of the walk
RECURSIVE AddListedFiles(_, _, _, _)
AddListedFiles(root, files, url_parts, persist) ==
    IF files = <<>> THEN <<>>
    ELSE LET f_name      == Head(files)
             listed_file == PathJoin(root, f_name)
             filtered_url == PySlice(listed_file, Len(url_parts.path),
                                     Len(listed_file))
             dir_f_url   == IF persist
                            THEN DATASET \o BaseName(url_parts.path) \o SEP
                                     \o filtered_url
                            ELSE MkUrl(FILE, url_parts.netloc, listed_file)
             later       == AddListedFiles(root, Tail(files), url_parts,
                                           persist)
         IN  IF StartsWith(f_name, WILDCARD) THEN later
             ELSE <<AddFile(dir_f_url)>> \o later

\* lines 168-216: the empty sub-directories of one directory of the walk
RECURSIVE AddEmptyDirs(_, _, _, _)
AddEmptyDirs(root, dirs, url_parts, persist) ==
    IF dirs = <<>> THEN <<>>
    ELSE LET full_dir_name == PathJoin(root, Head(dirs))
             path_final_part == PySlice(full_dir_name, Len(url_parts.path),
                                        Len(full_dir_name))
             later == AddEmptyDirs(root, Tail(dirs), url_parts, persist)
         IN  IF ~EmptyDirectory(full_dir_name) THEN later
             ELSE IF persist
             THEN <<AddFile(DATASET \o BaseName(url_parts.path) \o SEP
                        \o path_final_part \o SEP \o GITKEEP)>> \o later
             ELSE <<AddDataset(MkUrl(FILE, url_parts.netloc, full_dir_name)
                        \o SEP)>> \o later

\* lines 117-216: every directory of the walk, __pycache__ left out
RECURSIVE AddWalkedDataset(_, _, _)
AddWalkedDataset(walked, url_parts, persist) ==
    IF walked = <<>> THEN <<>>
    ELSE LET w == Head(walked)
             later == AddWalkedDataset(Tail(walked), url_parts, persist)
         IN  IF Contains(w.root, PYCACHE) THEN later
             ELSE AddListedFiles(w.root, w.files, url_parts, persist)
                      \o AddEmptyDirs(w.root, w.dirs, url_parts, persist)
                      \o later

\* lines 16-302: the calls made on the crate and the value returned
add_dataset_file_to_crate(in_url, persist, common_paths) ==
    LET url_parts == urlsplit(in_url)
        final_item_name == BaseName(url_parts.path)
    IN  IF url_parts.scheme \in {DIR, FILE} /\ ~PathExists(url_parts.path)
        THEN [calls |-> <<>>, result |-> <<>>, raised |-> "FileNotFoundError"]
        ELSE IF url_parts.scheme = FILE
        THEN IF persist
             THEN LET crate_path == CratePath(url_parts.path, common_paths)
                  IN  [calls |-> <<AddFile(crate_path)>>,
                       result |-> crate_path, raised |-> "none"]
             ELSE [calls |-> <<AddFile(in_url)>>, result |-> in_url,
                   raised |-> "none"]
        ELSE IF url_parts.scheme = DIR
        THEN LET parts == AddWalkedDataset(DatasetWalk(url_parts.path),
                                           url_parts, persist)
                 path_in_crate == DATASET \o final_item_name \o SEP
             IN  IF EmptyDirectory(url_parts.path)
                 THEN IF persist
                      THEN [calls |-> parts
                                \o <<AddFile(path_in_crate \o GITKEEP),
                                     AddDataset(path_in_crate)>>,
                            result |-> path_in_crate, raised |-> "none"]
                      ELSE [calls |-> parts
                                \o <<AddDataset(fix_dir_url(in_url))>>,
                            result |-> fix_dir_url(in_url), raised |-> "none"]
                 ELSE IF persist
                      THEN [calls |-> parts \o <<AddDataset(path_in_crate)>>,
                            result |-> path_in_crate, raised |-> "none"]
                      ELSE [calls |-> parts
                                \o <<AddDataset(fix_dir_url(in_url))>>,
                            result |-> fix_dir_url(in_url), raised |-> "none"]
        ELSE IF StartsWith(url_parts.scheme, HTTP)
        THEN [calls |-> <<AddFile(in_url)>>, result |-> fix_dir_url(in_url),
              raised |-> "none"]
        ELSE [calls |-> <<>>, result |-> fix_dir_url(in_url), raised |-> "none"]

(***************************************************************************)
(* wrroc/create_action.py                                                  *)
(*                                                                         *)
(* A line of dataprovenance.log is a record: its space-separated tokens,   *)
(* and, when the line is a timestamp, the format it is written in and the  *)
(* instant (in milliseconds) it denotes.  A value that may be missing (a   *)
(* key of a dict, a variable not yet bound) is a sequence of length 0 or 1.*)
(***************************************************************************)
LOG_FORMAT   == "%Y-%m-%dT%H:%M:%S.%f%z"      \* timestamps of the log
SACCT_FORMAT == "%Y-%m-%dT%H:%M:%S"           \* timestamps of sacct

Stamp(form, t) == [form |-> form, instant |-> t, tokens |-> <<"stamp">>]
Text(tokens)   == [form |-> "none", instant |-> 0, tokens |-> tokens]

\* datetime.strptime(text, format): the instant, or ValueError
strptime(line, format) ==
    IF line.form = format THEN [ok |-> TRUE, t |-> line.instant]
    ELSE [ok |-> FALSE, t |-> 0]

\* datetime.replace(microsecond=0)
WholeSecond(t) == t - (t % 1000)

Digits == <<"0", "1", "2", "3", "4", "5", "6", "7", "8", "9">>

\* int(text): an optional sign and decimal digits; ValueError otherwise
RECURSIVE DigitsValue(_, _)
DigitsValue(text, acc) ==
    IF text = <<>> THEN acc
    ELSE DigitsValue(Tail(text),
             10 * acc + (CHOOSE d \in 0..9 : Digits[d + 1] = Head(text)))

PyInt(text) ==
    LET signed == text # <<>> /\ Head(text) \in {"-", "+"}
        digits == IF signed THEN Tail(text) ELSE text
    IN  IF digits # <<>> /\ \A i \in 1..Len(digits) : digits[i] \in Range(Digits)
        THEN [ok |-> TRUE,
              value |-> IF signed /\ Head(text) = "-"
                        THEN 0 - DigitsValue(digits, 0)
                        ELSE DigitsValue(digits, 0)]
        ELSE [ok |-> FALSE, value |-> 0]

\* str(value) for an integer, and for None
RECURSIVE NatToStr(_)
NatToStr(n) ==
    IF n < 10 THEN <<Digits[n + 1]>>
    ELSE NatToStr(n \div 10) \o <<Digits[(n % 10) + 1]>>

IntToStr(n) == IF n < 0 THEN <<"-">> \o NatToStr(0 - n) ELSE NatToStr(n)

PY_NONE == <<"N", "o", "n", "e">>             \* str(None)

PyStr(value) == IF value = <<>> THEN PY_NONE ELSE IntToStr(value[1])

\* lines 45-57 of get_stats_list: the rows of at least four tokens, from the
\* fourth line on
RECURSIVE StatRows(_, _)
StatRows(lines, idx) ==
    IF lines = <<>> THEN <<>>
    ELSE IF idx >= 3 /\ Len(Head(lines).tokens) >= 4
    THEN <<Head(lines).tokens>> \o StatRows(Tail(lines), idx + 1)
    ELSE StatRows(Tail(lines), idx + 1)

\* lines 35-69: the rows, then the overall execution time
\* (the log has its three header lines: get_main_entities has read them)
get_stats_list(log, start_time, end) ==
    LET application_name == log[2].tokens[1]
        execution_time == end - start_time
    IN  StatRows(log, 0)
            \o <<<<"overall", application_name, "executionTime",
                   IntToStr(execution_time)>>>>

\* lines 72-91
add_execution(id_name, value) ==
    [id |-> id_name, name |-> "executions",
     value |-> PyStr(IF value = <<0>> THEN <<>> ELSE value)]

\* lines 94-112
add_time(id_name, name_parameter, value) ==
    [id |-> id_name, name |-> name_parameter, value |-> PyStr(value)]

\* lines 115-119
get_new_item(id_name, stat, value) ==
    IF stat = "executions" THEN add_execution(id_name, value)
    ELSE add_time(id_name, stat, value)

\* lines 122-147
get_resource_usage_dataset(log, start_time, end) ==
    LET stats_list == get_stats_list(log, start_time, end)
    IN  [i \in 1..Len(stats_list) |->
            LET data == stats_list[i]
                int  == PyInt(data[4])
                value == IF int.ok THEN <<int.value>> ELSE <<>>
            IN  get_new_item(<<data[1], data[2], data[3]>>, data[3], value)]

\* processing/entities.py, add_person_definition: a person without orcid is
\* ignored
add_person_definition(yaml_author) == yaml_author.has_orcid

\* lines 246-274: the agent of the run; a sequence of at most one identifier
SelectAgent(agent_key, authors) ==
    IF agent_key.present /\ agent_key.is_list /\ agent_key.value = <<>>
    THEN [raised |-> "IndexError", agent |-> <<>>]
    ELSE LET agent_entity == IF agent_key.is_list THEN agent_key.value[1]
                             ELSE agent_key.value
             agent_added  == agent_key.present
                                 /\ add_person_definition(agent_entity)
         IN  [raised |-> "none",
              agent  |-> IF agent_added THEN <<agent_entity.orcid>>
                         ELSE IF authors # <<>> THEN <<authors[1]>>
                         ELSE <<>>]

\* lines 287-300: the start time the accounting of the queuing system gives
\* for the job
QueryAccounting(reply) ==
    IF reply.kind = "no_command"
    THEN [raised |-> "FileNotFoundError", start_time |-> <<>>]
    ELSE LET parsed == strptime(reply.output, SACCT_FORMAT)
         IN  IF parsed.ok THEN [raised |-> "none", start_time |-> <<parsed.t>>]
             ELSE [raised |-> "ValueError", start_time |-> <<>>]

\* lines 306-323: the last line of the log that is not its fourth line
RECURSIVE LastLine(_, _, _)
LastLine(lines, i, last_line) ==
    IF lines = <<>> THEN last_line
    ELSE LastLine(Tail(lines), i + 1,
                  IF i = 3 THEN last_line ELSE Head(lines))

\* "compss-" + job_id + suffix
JobLogName(id, suffix) ==
    <<"c", "o", "m", "p", "s", "s", "-">> \o id \o suffix

\* lines 150-390.  start_time is the local variable of that name (not bound
\* until the accounting or the log gives a value); properties are the keys
\* of create_action_properties the function sets
wrroc_create_action(authors, ins, outs, agent_key, log, end, id, reply, logs) ==
    LET failed(exception, calls) ==
            [raised |-> exception, create_action |-> <<>>,
             sacct_calls |-> calls, files |-> <<>>]
        selected == SelectAgent(agent_key, authors)
        queried  == id # <<>>
        account  == IF queried THEN QueryAccounting(reply)
                    ELSE [raised |-> "none", start_time |-> <<>>]
        calls    == IF queried THEN 1 ELSE 0
    IN  IF selected.raised # "none" THEN failed(selected.raised, 0)
        ELSE IF account.raised # "none" THEN failed(account.raised, calls)
        ELSE
        LET fourth     == IF Len(log) >= 4
                          THEN strptime(log[4], LOG_FORMAT)
                          ELSE [ok |-> FALSE, t |-> 0]
            start_time == IF fourth.ok THEN <<fourth.t>> ELSE account.start_time
            startTime  == IF fourth.ok THEN <<WholeSecond(fourth.t)>>
                          ELSE account.start_time
            last       == strptime(LastLine(log, 0, Text(<<>>)), LOG_FORMAT)
            endTime    == IF last.ok THEN <<WholeSecond(last.t)>> ELSE <<end>>
        IN  IF start_time = <<>> THEN failed("UnboundLocalError", calls)
            ELSE
            LET record ==
                    [startTime |-> startTime,
                     endTime |-> endTime,
                     agent |-> selected.agent,
                     resourceUsage |->
                         get_resource_usage_dataset(log, start_time[1], end),
                     object |-> [i \in 1..Len(ins) |-> fix_dir_url(ins[i])],
                     result |-> [i \in 1..Len(outs) |-> fix_dir_url(outs[i])]
                                    \o <<<<".", "/">>>>]
            IN  IF queried /\ ~logs
                THEN [raised |-> "FileNotFoundError",
                      create_action |-> <<record>>,
                      sacct_calls |-> calls, files |-> <<>>]
                ELSE [raised |-> "none", create_action |-> <<record>>,
                      sacct_calls |-> calls,
                      files |-> IF queried
                                THEN <<AddFile(JobLogName(id, <<".", "o", "u", "t">>)),
                                       AddFile(JobLogName(id, <<".", "e", "r", "r">>))>>
                                ELSE <<>>]

(***************************************************************************)
(* Inputs of add_manual_datasets                                           *)
(***************************************************************************)
\* What the runtime reports: file:// and dir:// URLs
RuntimeUrls == DirUrls \cup FileUrls

\* What the manifest can declare under inputs / outputs
DeclaredItems ==
    { P_a \o SEP,                       \* a directory already reported
      <<"b">>,                          \* a directory, relative to CWD
      P_ax,                             \* a file inside /a/
      P_cy,                             \* a file
      P_s,                              \* neither file nor directory
      P_u,                              \* does not exist
      P_t,                              \* a symbolic link, its target removed
      MkUrl(HTTP, REMOTE, P_u),         \* remote
      MkUrl(HTTPS, REMOTE, P_ax) }      \* remote, path as a local one

\* All sequences without repetition of at most n members of U
RECURSIVE Arrangements(_, _)
Arrangements(U, n) ==
    IF n = 0 THEN {<<>>}
    ELSE LET shorter == Arrangements(U, n - 1)
         IN  shorter \cup {Append(s, x) : s \in shorter, x \in U}

NoRepeat(s) == \A i, j \in 1..Len(s) : i # j => s[i] # s[j]

RuntimeLists(n) == {s \in Arrangements(RuntimeUrls, n) : NoRepeat(s)}

Declarations(n) ==
    {[is_list |-> TRUE, value |-> s] : s \in Arrangements(DeclaredItems, n)}
    \cup {[is_list |-> FALSE, value |-> x] : x \in DeclaredItems}

OutputLists == SortedLists(DirUrls \cup {MkUrl(FILE, HOST, P_cy)}, 1)

(***************************************************************************)
(* Specification of the classifier: add_manual_datasets on a runtime list, *)
(* then fix_in_files_at_out_dirs (main, lines 900-905)                     *)
(***************************************************************************)
InitAMD ==
    /\ NoRunCall
    /\ NoRootCall
    /\ NoSourceCall
    /\ NoMainCall
    /\ NoBuildCall
    /\ pc = "amd_call"
    /\ raised = "none"
    /\ data_list \in RuntimeLists(MaxData)
    /\ data_list_in = data_list
    /\ yaml_value \in Declarations(MaxYaml)
    /\ url_list = <<>>
    /\ list_common_paths = <<>>
    /\ inputs_list = <<>>
    /\ outputs_list = <<>>
    /\ NoMainEntityCall

AddManualDatasets ==
    /\ pc = "amd_call"
    /\ LET r == add_manual_datasets(yaml_value, data_list)
       IN  /\ data_list' = r.data_list
           /\ raised' = r.raised
           /\ pc' = IF r.raised = "none" THEN "amd_done" ELSE "amd_raised"
    /\ UNCHANGED <<yaml_value, data_list_in, cwd_files, cpVars, fixVars, meVars,
                   buildVars, runVars, rootVars, srcVars, mainVars>>

FixInputsOfClassifier ==
    /\ pc = "amd_done"
    /\ \E outs \in OutputLists :
          /\ data_list' = fix_in_files_at_out_dirs(data_list, outs)
          /\ outputs_list' = outs
    /\ pc' = "amd_fixed"
    /\ UNCHANGED <<yaml_value, data_list_in, raised, cwd_files, cpVars,
                   inputs_list, meVars, buildVars, runVars, rootVars, srcVars, mainVars>>

NextAMD == AddManualDatasets \/ FixInputsOfClassifier

SpecAMD == InitAMD /\ [][NextAMD]_vars

(***************************************************************************)
(* Specification of fix_in_files_at_out_dirs on every pair of sorted lists *)
(***************************************************************************)
InitFix ==
    /\ NoRunCall
    /\ NoRootCall
    /\ NoSourceCall
    /\ NoMainCall
    /\ NoBuildCall
    /\ pc = "fix_call"
    /\ raised = "none"
    /\ inputs_list \in SortedLists(UrlUniverse, MaxFix)
    /\ outputs_list \in SortedLists(UrlUniverse, MaxFix)
    /\ data_list_in = inputs_list
    /\ url_list = <<>>
    /\ list_common_paths = <<>>
    /\ yaml_value = [is_list |-> TRUE, value |-> <<>>]
    /\ data_list = <<>>
    /\ NoMainEntityCall

FixInFilesAtOutDirs ==
    /\ pc = "fix_call"
    /\ inputs_list' = fix_in_files_at_out_dirs(inputs_list, outputs_list)
    /\ pc' = "fix_done"
    /\ UNCHANGED <<outputs_list, raised, cwd_files, cpVars, amdVars, meVars,
                   buildVars, runVars, rootVars, srcVars, mainVars>>

NextFix == FixInFilesAtOutDirs

SpecFix == InitFix /\ [][NextFix]_vars

(***************************************************************************)
(* Specification of get_common_paths on every sorted dataset list          *)
(***************************************************************************)
InitCP ==
    /\ NoRunCall
    /\ NoRootCall
    /\ NoSourceCall
    /\ NoMainCall
    /\ NoBuildCall
    /\ pc = "cp_call"
    /\ url_list \in SortedLists(UrlUniverse, MaxUrls)
    /\ list_common_paths = <<>>
    /\ raised = "none"
    /\ yaml_value = [is_list |-> TRUE, value |-> <<>>]
    /\ data_list = <<>>
    /\ data_list_in = <<>>
    /\ inputs_list = <<>>
    /\ outputs_list = <<>>
    /\ NoMainEntityCall

GetCommonPaths ==
    /\ pc = "cp_call"
    /\ list_common_paths' = get_common_paths(url_list)
    /\ pc' = "cp_done"
    /\ UNCHANGED <<url_list, raised, cwd_files, amdVars, fixVars, meVars,
                   buildVars, runVars, rootVars, srcVars, mainVars>>

\* The get_common_paths of generate_COMPSs_RO-Crate.py on the same list
MainGetCommonPaths ==
    /\ pc = "cp_call"
    /\ list_common_paths' = main_get_common_paths(url_list)
    /\ pc' = "cp_main_done"
    /\ UNCHANGED <<url_list, raised, cwd_files, amdVars, fixVars, meVars,
                   buildVars, runVars, rootVars, srcVars, mainVars>>

NextCP == GetCommonPaths \/ MainGetCommonPaths

SpecCP == InitCP /\ [][NextCP]_vars

(***************************************************************************)
(* Specification of the dataset assembly of main (lines 905-946): the      *)
(* inputs inside output directories are dropped, the common paths are      *)
(* computed on the sorted union, and every input and output is added to    *)
(* the crate                                                               *)
(***************************************************************************)
\* The get_common_paths a build calls: the one of utils/common_paths.py, or
\* the one generate_COMPSs_RO-Crate.py defines for its own main
CommonPathsOf(impl, list) ==
    IF impl = "main" THEN main_get_common_paths(list)
    ELSE get_common_paths(list)

InitBuild ==
    /\ NoRunCall
    /\ NoRootCall
    /\ NoSourceCall
    /\ NoMainCall
    /\ pc = "build_call"
    /\ raised = "none"
    /\ inputs_list \in SortedLists(UrlUniverse, MaxBuild)
    /\ outputs_list \in SortedLists(UrlUniverse, MaxBuild)
    /\ data_list_in = inputs_list
    /\ persistence \in BOOLEAN
    /\ common_paths_impl \in {"utils", "main"}
    /\ crate_calls = <<>>
    /\ fixed_ins = <<>>
    /\ fixed_outs = <<>>
    /\ url_list = <<>>
    /\ list_common_paths = <<>>
    /\ yaml_value = [is_list |-> TRUE, value |-> <<>>]
    /\ data_list = <<>>
    /\ NoMainEntityCall

\* main, lines 905-924
ClassifyDatasets ==
    /\ pc = "build_call"
    /\ LET ins == fix_in_files_at_out_dirs(inputs_list, outputs_list)
           ins_and_outs == Sort(ins \o outputs_list)
       IN  /\ inputs_list' = ins
           /\ url_list' = ins_and_outs
           /\ list_common_paths' =
                  IF persistence
                  THEN CommonPathsOf(common_paths_impl, ins_and_outs)
                  ELSE <<>>
    /\ pc' = "build_add"
    /\ UNCHANGED <<outputs_list, raised, cwd_files, amdVars, meVars,
                   persistence, common_paths_impl, crate_calls, fixed_ins,
                   fixed_outs, runVars, rootVars, srcVars, mainVars>>

\* main, lines 926-932: one turn of the loop over the inputs
AddInputToCrate ==
    /\ pc = "build_add"
    /\ Len(fixed_ins) < Len(inputs_list)
    /\ LET r == add_dataset_file_to_crate(inputs_list[Len(fixed_ins) + 1],
                                          persistence, list_common_paths)
       IN  /\ crate_calls' = crate_calls \o r.calls
           /\ fixed_ins' = IF r.raised = "none" THEN Append(fixed_ins, r.result)
                           ELSE fixed_ins
           /\ raised' = r.raised
           /\ pc' = IF r.raised = "none" THEN "build_add" ELSE "build_raised"
    /\ UNCHANGED <<cwd_files, cpVars, amdVars, fixVars, meVars, persistence,
                   common_paths_impl, fixed_outs, runVars, rootVars, srcVars, mainVars>>

\* main, lines 940-946: one turn of the loop over the outputs
AddOutputToCrate ==
    /\ pc = "build_add"
    /\ Len(fixed_ins) = Len(inputs_list)
    /\ Len(fixed_outs) < Len(outputs_list)
    /\ LET r == add_dataset_file_to_crate(outputs_list[Len(fixed_outs) + 1],
                                          persistence, list_common_paths)
       IN  /\ crate_calls' = crate_calls \o r.calls
           /\ fixed_outs' = IF r.raised = "none"
                            THEN Append(fixed_outs, r.result)
                            ELSE fixed_outs
           /\ raised' = r.raised
           /\ pc' = IF r.raised = "none" THEN "build_add" ELSE "build_raised"
    /\ UNCHANGED <<cwd_files, cpVars, amdVars, fixVars, meVars, persistence,
                   common_paths_impl, fixed_ins, runVars, rootVars, srcVars, mainVars>>

NextBuild == ClassifyDatasets \/ AddInputToCrate \/ AddOutputToCrate

SpecBuild == InitBuild /\ [][NextBuild]_vars

(***************************************************************************)
(* Specification of wrroc_create_action on every log, job environment and  *)
(* Agent declaration                                                       *)
(***************************************************************************)
JOB_7 == <<"7">>                       \* SLURM_JOB_ID of a job

\* Instants, in milliseconds
LogStartTimes   == {2500}
SacctStartTimes == {1000}
LogEndTimes     == {7500}
WallEndTimes    == {9250}

\* What sacct does: it is not installed, or it prints a start time, nothing,
\* or a word
SacctReplies ==
    {[kind |-> "no_command", output |-> Text(<<>>)]}
    \cup {[kind |-> "output", output |-> Stamp(SACCT_FORMAT, t)] :
              t \in SacctStartTimes}
    \cup {[kind |-> "output", output |-> Text(<<>>)],
          [kind |-> "output", output |-> Text(<<"Unknown">>)]}

\* The three header lines: version, main entity, profile file
LogHeader == <<Text(<<"3.3">>), Text(<<"m.py">>), Text(<<"p.json">>)>>

\* The fourth line: a timestamp, a timestamp in another format, any text, or
\* no line at all
StartLines ==
    {<<Stamp(LOG_FORMAT, t)>> : t \in LogStartTimes}
    \cup {<<Stamp(SACCT_FORMAT, t)>> : t \in LogStartTimes}
    \cup {<<Text(<<"started">>)>>, <<>>}

\* resource, implementation, statistic, value
StatLines ==
    {Text(<<"r", "t", stat, value>>) :
        stat \in {"executions", "maxTime"}, value \in {<<"0">>, <<"1", "2">>}}
    \cup {Text(<<"r", "t", "maxTime", <<"x">>>>)}

\* The line at the end of the file
EndLines ==
    {<<Stamp(LOG_FORMAT, t)>> : t \in LogEndTimes}
    \cup {<<Text(<<"ended">>)>>, <<>>}

Person(id) == [has_orcid |-> TRUE, orcid |-> id]
Anonymous  == [has_orcid |-> FALSE, orcid |-> ""]

\* The Agent key of the manifest
AgentDeclarations ==
    { [present |-> FALSE, is_list |-> FALSE, value |-> Anonymous],
      [present |-> TRUE, is_list |-> FALSE, value |-> Person("orcid_a")],
      [present |-> TRUE, is_list |-> FALSE, value |-> Anonymous],
      [present |-> TRUE, is_list |-> TRUE,
       value |-> <<Person("orcid_a"), Person("orcid_b")>>],
      [present |-> TRUE, is_list |-> TRUE, value |-> <<>>] }

\* The inputs and outputs main passes: URLs without persistence, crate paths
\* with it
RunDatasets ==
    { [ins |-> <<>>, outs |-> <<>>],
      [ins |-> <<MkUrl(DIR, HOST, P_c), MkUrl(FILE, HOST, P_ax)>>,
       outs |-> <<MkUrl(DIR, HOST, P_ab \o SEP)>>],
      [ins |-> <<DATASET \o <<"x">>>>, outs |-> <<DATASET \o <<"b", "/">>>>] }

InitRun ==
    /\ pc = "run_call"
    /\ raised = "none"
    /\ \/ job_id = <<>> /\ job_logs = FALSE /\ sacct \in {r \in SacctReplies : r.kind = "no_command"}
       \/ job_id = JOB_7 /\ job_logs \in BOOLEAN /\ sacct \in SacctReplies
    /\ sacct_calls = 0
    /\ \E start \in StartLines, end \in EndLines,
          stats \in Arrangements(StatLines, MaxStats) :
          dp_log = LogHeader \o start \o stats \o end
    /\ end_time \in WallEndTimes
    /\ yaml_agent \in AgentDeclarations
    /\ author_list \in {<<>>, <<"orcid_c", "orcid_d">>}
    /\ create_action = <<>>
    /\ NoRootCall
    /\ NoSourceCall
    /\ NoMainCall
    /\ \E d \in RunDatasets : fixed_ins = d.ins /\ fixed_outs = d.outs
    /\ persistence = FALSE
    /\ common_paths_impl = "utils"
    /\ crate_calls = <<>>
    /\ url_list = <<>>
    /\ list_common_paths = <<>>
    /\ yaml_value = [is_list |-> TRUE, value |-> <<>>]
    /\ data_list = <<>>
    /\ data_list_in = <<>>
    /\ inputs_list = <<>>
    /\ outputs_list = <<>>
    /\ NoMainEntityCall

WrrocCreateAction ==
    /\ pc = "run_call"
    /\ LET r == wrroc_create_action(author_list, fixed_ins, fixed_outs,
                    yaml_agent, dp_log, end_time, job_id, sacct, job_logs)
       IN  /\ create_action' = r.create_action
           /\ sacct_calls' = r.sacct_calls
           /\ crate_calls' = crate_calls \o r.files
           /\ raised' = r.raised
           /\ pc' = IF r.raised = "none" THEN "run_done" ELSE "run_raised"
    /\ UNCHANGED <<cwd_files, cpVars, amdVars, fixVars, meVars, persistence,
                   common_paths_impl, fixed_ins, fixed_outs, job_id, sacct,
                   dp_log, end_time, job_logs, yaml_agent, author_list,
                   rootVars, srcVars, mainVars>>

NextRun == WrrocCreateAction

SpecRun == InitRun /\ [][NextRun]_vars

(***************************************************************************)
(* processing/entities.py : root_entity                                    *)
(*                                                                         *)
(* An author of the manifest is a record: whether it has the keys orcid    *)
(* and ror, and their values.                                              *)
(***************************************************************************)
Author(id, org) ==
    [has_orcid |-> TRUE, orcid |-> id, has_ror |-> org # "", ror |-> org]
Unidentified(org) ==
    [has_orcid |-> FALSE, orcid |-> "", has_ror |-> org # "", ror |-> org]

\* lines 114-120: the loop over authors_info.  It stops (break) at the first
\* author whose orcid is already in author_list
RECURSIVE RegisterAuthors(_, _, _, _)
RegisterAuthors(authors_info, authors, org_list, skipped) ==
    IF authors_info = <<>>
    THEN [author_list |-> authors, org_list |-> org_list, ignored |-> skipped]
    ELSE LET author == Head(authors_info)
         IN  IF author.has_orcid /\ author.orcid \in Range(authors)
             THEN [author_list |-> authors, org_list |-> org_list,
                   ignored |-> skipped]
             ELSE IF add_person_definition(author)
             THEN RegisterAuthors(Tail(authors_info),
                      Append(authors, author.orcid),
                      IF author.has_ror /\ author.ror \notin Range(org_list)
                      THEN Append(org_list, author.ror) ELSE org_list,
                      skipped)
             ELSE RegisterAuthors(Tail(authors_info), authors, org_list,
                                  skipped + 1)

\* lines 87-143.  creator and publisher are sequences of at most one value:
\* the attribute is set or it is not
root_entity(authors_key) ==
    LET authors_info ==
            IF ~authors_key.present THEN <<>>
            ELSE IF authors_key.is_list THEN authors_key.value
            ELSE <<authors_key.value>>
        r == RegisterAuthors(authors_info, <<>>, <<>>, 0)
        crate_author_list == r.author_list
        crate_org_list == r.org_list
    IN  [creator |-> IF crate_author_list # <<>> THEN <<crate_author_list>>
                     ELSE <<>>,
         publisher |-> IF crate_org_list = <<>>
                       THEN IF crate_author_list # <<>>
                            THEN <<crate_author_list>> ELSE <<>>
                       ELSE <<crate_org_list>>,
         author_list |-> crate_author_list,
         ignored |-> r.ignored]

(***************************************************************************)
(* Specification of root_entity on every Authors declaration               *)
(***************************************************************************)
ManifestAuthors ==
    {Author("orcid_a", "ror_1"), Author("orcid_a", ""),
     Author("orcid_b", "ror_1"), Author("orcid_c", "ror_2"),
     Unidentified("")}

AuthorsDeclarations ==
    {[present |-> FALSE, is_list |-> FALSE, value |-> Unidentified("")]}
    \cup {[present |-> TRUE, is_list |-> FALSE, value |-> a] :
              a \in ManifestAuthors}
    \cup {[present |-> TRUE, is_list |-> TRUE, value |-> l] :
              l \in Arrangements(ManifestAuthors, MaxAuthors)}

InitRoot ==
    /\ NoSourceCall
    /\ NoMainCall
    /\ pc = "root_call"
    /\ raised = "none"
    /\ yaml_authors \in AuthorsDeclarations
    /\ creator = <<>>
    /\ publisher = <<>>
    /\ ignored = 0
    /\ job_id = <<>>
    /\ sacct = [kind |-> "no_command"]
    /\ sacct_calls = 0
    /\ dp_log = <<>>
    /\ end_time = 0
    /\ job_logs = FALSE
    /\ yaml_agent = [present |-> FALSE]
    /\ author_list = <<>>
    /\ create_action = <<>>
    /\ NoBuildCall
    /\ url_list = <<>>
    /\ list_common_paths = <<>>
    /\ yaml_value = [is_list |-> TRUE, value |-> <<>>]
    /\ data_list = <<>>
    /\ data_list_in = <<>>
    /\ inputs_list = <<>>
    /\ outputs_list = <<>>
    /\ NoMainEntityCall

RootEntity ==
    /\ pc = "root_call"
    /\ LET r == root_entity(yaml_authors)
       IN  /\ creator' = r.creator
           /\ publisher' = r.publisher
           /\ author_list' = r.author_list
           /\ ignored' = r.ignored
    /\ pc' = "root_done"
    /\ UNCHANGED <<raised, cwd_files, cpVars, amdVars, fixVars, meVars,
                   buildVars, job_id, sacct, sacct_calls, dp_log, end_time,
                   job_logs, yaml_agent, create_action, yaml_authors,
                   srcVars, mainVars>>

NextRoot == RootEntity

SpecRoot == InitRoot /\ [][NextRoot]_vars

(***************************************************************************)
(* Inputs of get_main_entities                                             *)
(***************************************************************************)
\* What the manifest can declare under sources
SourceItems ==
    { P_p,          \* a directory with sub-directories
      P_pl,         \* a directory inside /p
      P_pm,         \* a file
      P_q,          \* a directory without any source file
      P_n,          \* does not exist
      P_s }         \* neither file nor directory

SourcesDeclarations(n) ==
    {Absent}
    \cup {[present |-> TRUE, is_list |-> TRUE, value |-> l] :
              l \in Arrangements(SourceItems, n)}
    \cup {[present |-> TRUE, is_list |-> FALSE, value |-> x] : x \in SourceItems}

\* The keys of older manifests: files and sources_dir
OldKeys ==
    { [files |-> Absent, sources_dir |-> Absent],
      [files |-> [present |-> TRUE, is_list |-> FALSE, value |-> P_pkn],
       sources_dir |-> Absent],
      [files |-> Absent,
       sources_dir |-> [present |-> TRUE, is_list |-> TRUE, value |-> <<P_q>>]] }

\* What the manifest can declare under sources_main_file
N_zpy == <<"z", ".", "p", "y">>

MainFileDeclarations ==
    {Absent} \cup
    {[present |-> TRUE, is_list |-> FALSE, value |-> x] :
        x \in { P_pdm,                      \* an existing file, absolute
                N_dmpy,                     \* relative to a declared source
                <<"l">> \o SEP \o N_mpy,    \* relative, in a sub-directory
                N_mpy,                      \* the name of the candidate
                N_zpy }}                    \* found nowhere

\* Line 2 of dataprovenance.log: a Python file name or a Java class name
SecondLines == {N_mpy, <<"k", ".", "n">>}

(***************************************************************************)
(* file_adding/source_code.py : add_file_to_crate and                      *)
(* add_application_source_files                                            *)
(***************************************************************************)
\* "application_sources/"
APPLICATION_SOURCES ==
    <<"a", "p", "p", "l", "i", "c", "a", "t", "i", "o", "n", "_", "s", "o",
      "u", "r", "c", "e", "s", "/">>
\* "complete_graph.svg"
COMPLETE_GRAPH ==
    <<"c", "o", "m", "p", "l", "e", "t", "e", "_", "g", "r", "a", "p", "h",
      ".", "s", "v", "g">>
\* "compss_submission_command_line.txt"
COMMAND_LINE ==
    <<"c", "o", "m", "p", "s", "s", "_", "s", "u", "b", "m", "i", "s", "s",
      "i", "o", "n", "_", "c", "o", "m", "m", "a", "n", "d", "_", "l", "i",
      "n", "e", ".", "t", "x", "t">>
\* the out_profile argument of the modelled runs
OUT_PROFILE ==
    <<"p", ".", "j", "s", "o", "n">>
\* the info_yaml argument of the modelled runs
INFO_YAML ==
    <<"i", ".", "y", "a", "m", "l">>

\* A call that adds a file of the application to the crate: the method, the
\* file added and its path in the crate
SourceCall(op, source, dest) == [op |-> op, source |-> source, dest |-> dest]

InSeq(x, s) == \E i \in 1..Len(s) : s[i] = x

\* lines 170-177: the path of an application file in the crate
PathInCrate(file_name, in_sources_dir) ==
    IF in_sources_dir # <<>>
    THEN LET new_root == PathParent(in_sources_dir)
         IN  APPLICATION_SOURCES
                 \o PySlice(file_name, Len(new_root) + 1, Len(file_name))
    ELSE APPLICATION_SOURCES \o BaseName(file_name)

\* lines 61-361: the calls add_file_to_crate makes on the crate, and the
\* exception that ends it; made are the files created since the build began
add_file_to_crate(file_name, main, in_sources_dir, made) ==
    IF ~(PathExists(file_name) \/ Resolve(file_name) \in made)
    THEN [calls |-> <<>>, raised |-> "FileNotFoundError"]     \* line 64
    ELSE IF in_sources_dir # <<>> /\ Components(in_sources_dir) = <<>>
    THEN [calls |-> <<>>, raised |-> "IndexError"]            \* line 173
    ELSE
    LET path_in_crate == PathInCrate(file_name, in_sources_dir)
    IN  IF file_name # main
        THEN [calls |-> <<SourceCall("add_file", file_name, path_in_crate)>>,
              raised |-> "none"]
        ELSE
        LET workflow == <<SourceCall("add_workflow", file_name,
                                     path_in_crate)>>
            graph    == IF run_dir.graph
                        THEN <<SourceCall("add_file", COMPLETE_GRAPH,
                                          COMPLETE_GRAPH)>>
                        ELSE <<>>
            profile  == IF run_dir.profile
                        THEN <<SourceCall("add_file", OUT_PROFILE,
                                          OUT_PROFILE)>>
                        ELSE <<>>
        IN  IF ~run_dir.command_line
            THEN [calls |-> workflow \o graph \o profile,
                  raised |-> "FileNotFoundError"]             \* line 313
            ELSE [calls |-> workflow \o graph \o profile
                      \o <<SourceCall("add_file", COMMAND_LINE, COMMAND_LINE),
                           SourceCall("add_file", INFO_YAML, INFO_YAML)>>,
                  raised |-> "none"]

\* The value of F at v, with v evaluated once
At(v, F(_)) == CHOOSE y \in {F(x) : x \in {v}} : TRUE

\* The calls of add_application_source_files on add_file_to_crate: the state
\* st holds the calls made on the crate, added_files, added_dirs, the
\* .gitkeep files created and the exception that ended the function
AddSource(st, file_name, main, dir, track) ==
    IF st.raised # "none" THEN st
    ELSE At(add_file_to_crate(file_name, main, dir, st.made),
            LAMBDA r : [st EXCEPT !.calls = @ \o r.calls,
                                  !.raised = r.raised,
                                  !.added_files =
                                      IF track /\ r.raised = "none"
                                      THEN Append(@, file_name) ELSE @])

\* The names of the files of a directory, those created since included
FilesHere(root, made) ==
    FileNamesIn(root)
        \cup {BaseName(g) : g \in {h \in made : PathParent(h) = root}}

\* lines 487-500 and 508-520: an empty directory gets a .gitkeep file
KeepDirectory(st, dir_name, main, dir) ==
    LET git_keep == dir_name \o SEP \o GITKEEP
    IN  IF st.raised = "none" /\ EmptyDirectory(dir_name)
           /\ ~\E g \in st.made : PathParent(g) = dir_name
        THEN AddSource([st EXCEPT !.made = @ \cup {git_keep}], git_keep,
                       main, dir, FALSE)
        ELSE st

\* lines 456-477: the files of one directory of the walk
RECURSIVE AddSourceFiles(_, _, _, _, _)
AddSourceFiles(names, root, main, dir, st) ==
    IF names = <<>> THEN st
    ELSE LET f_name == Head(names)
             resolved_file == PathJoin(root, f_name)
         IN  At(IF StartsWith(f_name, WILDCARD) THEN st
                ELSE IF InSeq(resolved_file, st.added_files) THEN st
                ELSE AddSource(st, resolved_file, main, dir, TRUE),
                LAMBDA next : AddSourceFiles(Tail(names), root, main, dir,
                                             next))

\* lines 478-500: the sub-directories of one directory of the walk
RECURSIVE KeepEmpty(_, _, _, _, _)
KeepEmpty(names, root, main, dir, st) ==
    IF names = <<>> THEN st
    ELSE At(KeepDirectory(st, PathJoin(root, Head(names)), main, dir),
            LAMBDA next : KeepEmpty(Tail(names), root, main, dir, next))

\* lines 451-500: os.walk(resolved_source, topdown=True), which lists a
\* directory when it reaches it
RECURSIVE WalkSource(_, _, _, _)
RECURSIVE WalkBelow(_, _, _, _, _)
WalkSource(root, main, dir, st) ==
    LET files == Listed(FilesHere(root, st.made), scandir.files_desc)
        dirs  == Listed(DirNamesIn(root), scandir.dirs_desc)
    IN  IF Contains(root, PYCACHE) THEN WalkBelow(dirs, root, main, dir, st)
        ELSE At(AddSourceFiles(files, root, main, dir, st),
                LAMBDA added :
                    At(KeepEmpty(dirs, root, main, dir, added),
                       LAMBDA here : WalkBelow(dirs, root, main, dir, here)))

WalkBelow(ds, root, main, dir, st) ==
    IF ds = <<>> THEN st
    ELSE At(WalkSource(PathJoin(root, Head(ds)), main, dir, st),
            LAMBDA next : WalkBelow(Tail(ds), root, main, dir, next))

\* lines 420-540: one declared source
AddDeclaredSource(source, main, st) ==
    LET resolved_source == Resolve(source)
    IN  IF ~(PathExists(source) \/ resolved_source \in st.made) THEN st
        ELSE IF IsDir(resolved_source)
        THEN IF InSeq(resolved_source, st.added_dirs) THEN st
             ELSE IF \E i \in 1..Len(st.added_dirs) :
                         StartsWith(resolved_source, st.added_dirs[i])
             THEN st
             ELSE At(WalkSource(resolved_source, main, resolved_source,
                         [st EXCEPT !.added_dirs =
                              Append(@, resolved_source)]),
                     LAMBDA walked : KeepDirectory(walked, resolved_source,
                                                   main, resolved_source))
        ELSE IF IsFile(resolved_source) \/ resolved_source \in st.made
        THEN IF InSeq(resolved_source, st.added_files) THEN st
             ELSE AddSource(st, resolved_source, main, <<>>, TRUE)
        ELSE st

RECURSIVE AddDeclaredSources(_, _, _)
AddDeclaredSources(srcs, main, st) ==
    IF srcs = <<>> \/ st.raised # "none" THEN st
    ELSE At(AddDeclaredSource(Head(srcs), main, st),
            LAMBDA next : AddDeclaredSources(Tail(srcs), main, next))

\* lines 390-572: what add_application_source_files leaves behind
add_application_source_files(wf, main) ==
    LET sources_list == YamlSourcesList(wf)
    IN  At(AddDeclaredSources(sources_list, main,
               [calls |-> <<>>, added_files |-> <<>>, added_dirs |-> <<>>,
                made |-> {}, raised |-> "none"]),
           LAMBDA looped : IF Len(sources_list) = 0           \* lines 542-555
                           THEN AddSource(looped, main, main, <<>>, TRUE)
                           ELSE looped)

(***************************************************************************)
(* Specification of get_main_entities on every manifest, log and           *)
(* working directory                                                       *)
(***************************************************************************)
InitME ==
    /\ NoRunCall
    /\ NoRootCall
    /\ NoSourceCall
    /\ NoMainCall
    /\ NoBuildCall
    /\ pc = "me_call"
    /\ raised = "none"
    /\ \E src \in SourcesDeclarations(MaxSources), old \in OldKeys,
          smf \in MainFileDeclarations :
          wf_info = [sources |-> src, files |-> old.files,
                     sources_dir |-> old.sources_dir,
                     sources_main_file |-> smf]
    /\ second_line \in SecondLines
    /\ cwd_files \in SUBSET {P_am, P_an}
    /\ scandir \in [files_desc : BOOLEAN, dirs_desc : BOOLEAN]
    /\ main_entity = NONE
    /\ url_list = <<>>
    /\ list_common_paths = <<>>
    /\ yaml_value = [is_list |-> TRUE, value |-> <<>>]
    /\ data_list = <<>>
    /\ data_list_in = <<>>
    /\ inputs_list = <<>>
    /\ outputs_list = <<>>

GetMainEntities ==
    /\ pc = "me_call"
    /\ LET r == get_main_entities(wf_info, second_line)
       IN  /\ main_entity' = r.main_entity
           /\ raised' = r.raised
           /\ pc' = IF r.raised = "none" THEN "me_done" ELSE "me_raised"
    /\ UNCHANGED <<wf_info, second_line, scandir, cwd_files, cpVars, amdVars,
                   fixVars, buildVars, runVars, rootVars, srcVars, mainVars>>

NextME == GetMainEntities

SpecME == InitME /\ [][NextME]_vars

(***************************************************************************)
(* Properties of the dataset lists                                         *)

(***************************************************************************)
(* Specification of the source registration: get_main_entities and then    *)
(* add_application_source_files, as main calls them                        *)
(***************************************************************************)
RegisteredItems ==
    { P_es,         \* a directory with a cache, a wildcard and an empty dir
      P_esz,        \* its sibling, whose name begins with the name of /e/s
      P_esv,        \* the empty directory inside /e/s
      P_esm,        \* a file inside /e/s
      P_q,          \* a directory without any source file
      P_n }         \* does not exist

RegisteredDeclarations ==
    {Absent}
    \cup {[present |-> TRUE, is_list |-> TRUE, value |-> l] :
              l \in Arrangements(RegisteredItems, MaxDeclared)}

RegisteredMainFiles ==
    {Absent}
    \cup {[present |-> TRUE, is_list |-> FALSE, value |-> x] :
              x \in { P_pdm,        \* an existing file outside the sources
                      N_mpy }}      \* the name of the candidate

\* The files of the run found in the working directory
RunDirs ==
    { [graph |-> TRUE, profile |-> TRUE, command_line |-> TRUE],
      [graph |-> FALSE, profile |-> FALSE, command_line |-> TRUE],
      [graph |-> TRUE, profile |-> FALSE, command_line |-> FALSE],
      [graph |-> FALSE, profile |-> FALSE, command_line |-> FALSE] }

InitSrc ==
    /\ NoMainCall
    /\ NoRunCall
    /\ NoRootCall
    /\ NoBuildCall
    /\ pc = "me_call"
    /\ raised = "none"
    /\ \E src \in RegisteredDeclarations, smf \in RegisteredMainFiles :
          wf_info = [sources |-> src, files |-> Absent,
                     sources_dir |-> Absent, sources_main_file |-> smf]
    /\ second_line \in SecondLines
    /\ cwd_files \in {{}, {P_am}}
    /\ scandir \in {[files_desc |-> FALSE, dirs_desc |-> d] : d \in BOOLEAN}
    /\ main_entity = NONE
    /\ run_dir \in RunDirs
    /\ added_files = <<>>
    /\ touched = {}
    /\ url_list = <<>>
    /\ list_common_paths = <<>>
    /\ yaml_value = [is_list |-> TRUE, value |-> <<>>]
    /\ data_list = <<>>
    /\ data_list_in = <<>>
    /\ inputs_list = <<>>
    /\ outputs_list = <<>>

\* generate_COMPSs_RO-Crate.py, main: the call of add_application_source_files
\* with the main entity get_main_entities returned
AddApplicationSourceFiles ==
    /\ pc = "me_done"
    /\ LET r == add_application_source_files(wf_info, main_entity)
       IN  /\ crate_calls' = crate_calls \o r.calls
           /\ added_files' = r.added_files
           /\ touched' = r.made
           /\ raised' = r.raised
           /\ pc' = IF r.raised = "none" THEN "src_done" ELSE "src_raised"
    /\ UNCHANGED <<cwd_files, cpVars, amdVars, fixVars, meVars, persistence,
                   common_paths_impl, fixed_ins, fixed_outs, runVars,
                   rootVars, run_dir, mainVars>>

NextSrc == GetMainEntities \/ AddApplicationSourceFiles

SpecSrc == InitSrc /\ [][NextSrc]_vars


(***************************************************************************)
(* generate_COMPSs_RO-Crate.py : main                                      *)
(*                                                                         *)
(* main is a sequence of calls without any exception handler but the one   *)
(* around the reading of the manifest, which re-raises: each step is an    *)
(* action, taken when the step before it has returned.                     *)
(***************************************************************************)
\* Where main goes on after a step: an exception leaves main
AfterStep_Swallow(next, exception) == next

AfterStep(next, exception) ==
    IF exception = "none" THEN next ELSE "main_raised"

\* The steps that have returned
Completed(step, exception) ==
    IF exception = "none" THEN Append(completed, step) ELSE completed

\* processing/files.py, process_accessed_files: the accessed files of the
\* execution log as two sorted lists without repetition, inputs and
\* outputs; a log that cannot be read is fatal
process_accessed_files(log_records) ==
    IF ~log_records.readable
    THEN [ins |-> <<>>, outs |-> <<>>, raised |-> "OSError"]
    ELSE [ins |-> SortedSeqOf(Range(log_records.ins)),
          outs |-> SortedSeqOf(Range(log_records.outs)), raised |-> "none"]

\* lines 926-946: add_dataset_file_to_crate for each item of a list
RECURSIVE AddDatasetFiles(_, _, _, _)
AddDatasetFiles(items, persist, common_paths, st) ==
    IF items = <<>> \/ st.raised # "none" THEN st
    ELSE At(add_dataset_file_to_crate(Head(items), persist, common_paths),
            LAMBDA r :
                AddDatasetFiles(Tail(items), persist, common_paths,
                    [calls |-> st.calls \o r.calls,
                     fixed |-> IF r.raised = "none"
                               THEN Append(st.fixed, r.result) ELSE st.fixed,
                     raised |-> r.raised]))

\* lines 907-946: the common paths, then every input and every output is
\* added to the crate
AssembleDatasets(ins, outs, persist, impl) ==
    LET empty == [calls |-> <<>>, fixed |-> <<>>, raised |-> "none"]
    IN  At(Sort(ins \o outs), LAMBDA ins_and_outs :
        At(IF persist THEN CommonPathsOf(impl, ins_and_outs) ELSE <<>>,
           LAMBDA common :
        At(AddDatasetFiles(ins, persist, common, empty), LAMBDA i :
        At(IF i.raised # "none" THEN empty
           ELSE AddDatasetFiles(outs, persist, common, empty), LAMBDA o :
           [ins_and_outs |-> ins_and_outs,
            list_common_paths |-> common,
            calls |-> i.calls \o o.calls,
            fixed_ins |-> i.fixed,
            fixed_outs |-> o.fixed,
            raised |-> IF i.raised # "none" THEN i.raised ELSE o.raised]))))

\* lines 366-551: the wrroc_create_action of this file.  The end time is the
\* time of the call; the start time comes from the accounting when there is
\* a job, and from the fourth line of the log otherwise
main_create_action(authors, ins, outs, agent_key, log, now, id, reply, logs) ==
    LET failed(exception, calls) ==
            [raised |-> exception, create_action |-> <<>>,
             sacct_calls |-> calls, files |-> <<>>]
        agent == IF agent_key.present /\ ~agent_key.is_list
                    /\ add_person_definition(agent_key.value)
                 THEN <<agent_key.value.orcid>>
                 ELSE IF authors # <<>> THEN <<authors[1]>> ELSE <<>>
        queried == id # <<>>
        account == IF queried THEN QueryAccounting(reply)
                   ELSE [raised |-> "none", start_time |-> <<>>]
        fourth  == IF ~queried /\ Len(log) >= 4
                   THEN strptime(log[4], LOG_FORMAT)
                   ELSE [ok |-> TRUE, t |-> 0]
        calls   == IF queried THEN 1 ELSE 0
    IN  IF account.raised # "none" THEN failed(account.raised, calls)
        ELSE IF ~fourth.ok THEN failed("ValueError", calls)
        ELSE
        LET record ==
                [startTime |-> IF queried THEN account.start_time
                               ELSE IF Len(log) >= 4
                               THEN <<WholeSecond(fourth.t)>> ELSE <<>>,
                 endTime |-> <<now>>,
                 agent |-> agent,
                 object |-> [i \in 1..Len(ins) |-> fix_dir_url(ins[i])],
                 result |-> [i \in 1..Len(outs) |-> fix_dir_url(outs[i])]
                                \o <<<<".", "/">>>>]
        IN  IF queried /\ ~logs
            THEN [raised |-> "FileNotFoundError", create_action |-> <<record>>,
                  sacct_calls |-> calls, files |-> <<>>]
            ELSE [raised |-> "none", create_action |-> <<record>>,
                  sacct_calls |-> calls,
                  files |-> IF queried
                            THEN <<AddFile(JobLogName(id, <<".", "o", "u", "t">>)),
                                   AddFile(JobLogName(id, <<".", "e", "r", "r">>))>>
                            ELSE <<>>]

(***************************************************************************)
(* Specification of main on manifests, logs and working directories        *)
(***************************************************************************)
\* What reading the manifest gives: no file, a file that is not YAML, a
\* manifest without its workflow section, a manifest
Manifests == {"missing", "malformed", "incomplete", "loaded"}

NotDeclared == [present |-> FALSE, is_list |-> TRUE, value |-> <<>>]

\* The inputs and outputs keys of the manifest
MainDeclarations ==
    {[inputs |-> i, outputs |-> NotDeclared] :
        i \in { NotDeclared,
                [present |-> TRUE, is_list |-> TRUE, value |-> <<P_cy>>],
                [present |-> TRUE, is_list |-> FALSE, value |-> P_u] }}

\* The accessed files of the execution log
AccessedFiles ==
    { [readable |-> FALSE, ins |-> <<>>, outs |-> <<>>],
      [readable |-> TRUE, ins |-> <<>>, outs |-> <<>>],
      [readable |-> TRUE, ins |-> <<MkUrl(FILE, HOST, P_abx)>>,
       outs |-> <<MkUrl(DIR, HOST, P_ab \o SEP)>>],
      [readable |-> TRUE, ins |-> <<MkUrl(FILE, HOST, P_ax)>>,
       outs |-> <<MkUrl(FILE, HOST, P_u)>>] }

\* The job, what the accounting replies and whether the job logs are there
MainJobs ==
    { [job_id |-> <<>>, sacct |-> [kind |-> "no_command", output |-> Text(<<>>)],
       job_logs |-> FALSE],
      [job_id |-> JOB_7, sacct |-> [kind |-> "output",
                                    output |-> Stamp(SACCT_FORMAT, 1000)],
       job_logs |-> TRUE],
      [job_id |-> JOB_7, sacct |-> [kind |-> "output",
                                    output |-> Text(<<"Unknown">>)],
       job_logs |-> TRUE],
      [job_id |-> JOB_7, sacct |-> [kind |-> "output",
                                    output |-> Stamp(SACCT_FORMAT, 1000)],
       job_logs |-> FALSE] }

InitMain ==
    /\ pc = "main_call"
    /\ raised = "none"
    /\ manifest \in Manifests
    /\ yaml_authors =
           [present |-> TRUE, is_list |-> FALSE,
            value |-> Author("orcid_a", "ror_1")]
    /\ creator = <<>>
    /\ publisher = <<>>
    /\ ignored = 0
    /\ \E src \in {Absent,
                   [present |-> TRUE, is_list |-> TRUE, value |-> <<P_es>>]} :
          wf_info = [sources |-> src, files |-> Absent,
                     sources_dir |-> Absent, sources_main_file |-> Absent]
    /\ second_line = N_mpy
    /\ cwd_files \in {{}, {P_am}}
    /\ scandir = [files_desc |-> FALSE, dirs_desc |-> FALSE]
    /\ main_entity = NONE
    /\ run_dir \in {[graph |-> TRUE, profile |-> TRUE, command_line |-> TRUE],
                    [graph |-> FALSE, profile |-> FALSE,
                     command_line |-> FALSE]}
    /\ added_files = <<>>
    /\ touched = {}
    /\ accessed \in AccessedFiles
    /\ yaml_data \in MainDeclarations
    /\ persistence \in BOOLEAN
    /\ common_paths_impl = "main"
    /\ crate_calls = <<>>
    /\ fixed_ins = <<>>
    /\ fixed_outs = <<>>
    /\ \E job \in MainJobs :
          job_id = job.job_id /\ sacct = job.sacct /\ job_logs = job.job_logs
    /\ sacct_calls = 0
    /\ \E start \in {<<Stamp(LOG_FORMAT, 2500)>>, <<Text(<<"started">>)>>} :
          dp_log = LogHeader \o start
    /\ end_time \in WallEndTimes
    /\ yaml_agent = [present |-> FALSE, is_list |-> FALSE, value |-> Anonymous]
    /\ author_list = <<>>
    /\ create_action = <<>>
    /\ completed = <<>>
    /\ writes = 0
    /\ written = <<>>
    /\ url_list = <<>>
    /\ list_common_paths = <<>>
    /\ yaml_value = [is_list |-> TRUE, value |-> <<>>]
    /\ data_list = <<>>
    /\ data_list_in = <<>>
    /\ inputs_list = <<>>
    /\ outputs_list = <<>>

\* lines 863-880: the manifest is read; an IOError and a YAMLError are
\* raised again
LoadManifest ==
    /\ pc = "main_call"
    /\ LET exception == IF manifest = "missing" THEN "IOError"
                        ELSE IF manifest = "malformed" THEN "YAMLError"
                        ELSE "none"
       IN  /\ raised' = exception
           /\ completed' = Completed("manifest", exception)
           /\ pc' = AfterStep("main_root", exception)
    /\ UNCHANGED <<cwd_files, cpVars, amdVars, fixVars, meVars, buildVars,
                   runVars, rootVars, srcVars, manifest, yaml_data, accessed,
                   writes, written>>

\* line 883: root_entity; a manifest without 'COMPSs Workflow Information'
\* is a KeyError (entities.py, line 87)
MainRootEntity ==
    /\ pc = "main_root"
    /\ LET exception == IF manifest = "incomplete" THEN "KeyError" ELSE "none"
           r == root_entity(yaml_authors)
       IN  /\ raised' = exception
           /\ IF exception = "none"
              THEN /\ creator' = r.creator
                   /\ publisher' = r.publisher
                   /\ author_list' = r.author_list
                   /\ ignored' = r.ignored
              ELSE UNCHANGED <<creator, publisher, author_list, ignored>>
           /\ completed' = Completed("root_entity", exception)
           /\ pc' = AfterStep("main_entity", exception)
    /\ UNCHANGED <<cwd_files, cpVars, amdVars, fixVars, meVars, buildVars,
                   job_id, sacct, sacct_calls, dp_log, end_time, job_logs,
                   yaml_agent, create_action, yaml_authors, srcVars, manifest,
                   yaml_data, accessed, writes, written>>

\* line 886: get_main_entities
MainGetMainEntities ==
    /\ pc = "main_entity"
    /\ \E r \in {get_main_entities(wf_info, second_line)} :
           /\ main_entity' = r.main_entity
           /\ raised' = r.raised
           /\ completed' = Completed("main_entity", r.raised)
           /\ pc' = AfterStep("main_log", r.raised)
    /\ UNCHANGED <<wf_info, second_line, scandir, cwd_files, cpVars, amdVars,
                   fixVars, buildVars, runVars, rootVars, srcVars, manifest,
                   yaml_data, accessed, writes, written>>

\* line 890: process_accessed_files
ProcessAccessedFiles ==
    /\ pc = "main_log"
    /\ LET r == process_accessed_files(accessed)
       IN  /\ inputs_list' = r.ins
           /\ outputs_list' = r.outs
           /\ raised' = r.raised
           /\ completed' = Completed("accessed_files", r.raised)
           /\ pc' = AfterStep("main_sources", r.raised)
    /\ UNCHANGED <<cwd_files, cpVars, amdVars, meVars, buildVars, runVars,
                   rootVars, srcVars, manifest, yaml_data, accessed, writes,
                   written>>

\* lines 893-895: add_application_source_files
MainAddSourceFiles ==
    /\ pc = "main_sources"
    /\ \E r \in {add_application_source_files(wf_info, main_entity)} :
           /\ crate_calls' = crate_calls \o r.calls
           /\ added_files' = r.added_files
           /\ touched' = r.made
           /\ raised' = r.raised
           /\ completed' = Completed("sources", r.raised)
           /\ pc' = AfterStep("main_classify", r.raised)
    /\ UNCHANGED <<cwd_files, cpVars, amdVars, fixVars, meVars, persistence,
                   common_paths_impl, fixed_ins, fixed_outs, runVars,
                   rootVars, run_dir, manifest, yaml_data, accessed, writes,
                   written>>

\* lines 900-905: the declared inputs and outputs are merged into the
\* accessed files, and the inputs inside an output directory are removed
MainClassifyDatasets ==
    /\ pc = "main_classify"
    /\ LET ins  == IF yaml_data.inputs.present
                   THEN add_manual_datasets(yaml_data.inputs, inputs_list)
                   ELSE [data_list |-> inputs_list, raised |-> "none"]
           outs == IF ins.raised # "none" THEN ins
                   ELSE IF yaml_data.outputs.present
                   THEN add_manual_datasets(yaml_data.outputs, outputs_list)
                   ELSE [data_list |-> outputs_list, raised |-> "none"]
       IN  /\ raised' = outs.raised
           /\ IF outs.raised = "none"
              THEN /\ inputs_list' = fix_in_files_at_out_dirs(ins.data_list,
                                                              outs.data_list)
                   /\ outputs_list' = outs.data_list
              ELSE UNCHANGED <<inputs_list, outputs_list>>
           /\ completed' = Completed("classification", outs.raised)
           /\ pc' = AfterStep("main_assemble", outs.raised)
    /\ UNCHANGED <<cwd_files, cpVars, amdVars, meVars, buildVars, runVars,
                   rootVars, srcVars, manifest, yaml_data, accessed, writes,
                   written>>

\* lines 907-946: the datasets are assembled
MainAssembleDatasets ==
    /\ pc = "main_assemble"
    /\ \E r \in {AssembleDatasets(inputs_list, outputs_list, persistence,
                                  common_paths_impl)} :
           /\ url_list' = r.ins_and_outs
           /\ list_common_paths' = r.list_common_paths
           /\ crate_calls' = crate_calls \o r.calls
           /\ fixed_ins' = r.fixed_ins
           /\ fixed_outs' = r.fixed_outs
           /\ raised' = r.raised
           /\ completed' = Completed("assembly", r.raised)
           /\ pc' = AfterStep("main_run", r.raised)
    /\ UNCHANGED <<cwd_files, amdVars, fixVars, meVars, persistence,
                   common_paths_impl, runVars, rootVars, srcVars, manifest,
                   yaml_data, accessed, writes, written>>

\* lines 956-958: the wrroc_create_action of this file
MainCreateAction ==
    /\ pc = "main_run"
    /\ \E r \in {main_create_action(author_list, fixed_ins, fixed_outs,
                    yaml_agent, dp_log, end_time, job_id, sacct, job_logs)} :
           /\ create_action' = r.create_action
           /\ sacct_calls' = r.sacct_calls
           /\ crate_calls' = crate_calls \o r.files
           /\ raised' = r.raised
           /\ completed' = Completed("run_record", r.raised)
           /\ pc' = AfterStep("main_write", r.raised)
    /\ UNCHANGED <<cwd_files, cpVars, amdVars, fixVars, meVars, persistence,
                   common_paths_impl, fixed_ins, fixed_outs, job_id, sacct,
                   dp_log, end_time, job_logs, yaml_agent, author_list,
                   rootVars, srcVars, manifest, yaml_data, accessed, writes,
                   written>>

\* lines 960-1015: the profiles are declared and the crate is written
WriteCrate ==
    /\ pc = "main_write"
    /\ writes' = writes + 1
    /\ written' = <<[calls |-> crate_calls, create_action |-> create_action]>>
    /\ pc' = "main_done"
    /\ UNCHANGED <<raised, cwd_files, cpVars, amdVars, fixVars, meVars,
                   buildVars, runVars, rootVars, srcVars, manifest, yaml_data,
                   accessed, completed>>

NextMain ==
    \/ LoadManifest
    \/ MainRootEntity
    \/ MainGetMainEntities
    \/ ProcessAccessedFiles
    \/ MainAddSourceFiles
    \/ MainClassifyDatasets
    \/ MainAssembleDatasets
    \/ MainCreateAction
    \/ WriteCrate

SpecMain == InitMain /\ [][NextMain]_vars

(***************************************************************************)
PathOf(url)   == urlsplit(url).path
SchemeOf(url) == urlsplit(url).scheme

\* p lies below directory d: the components of d are a proper prefix of
\* the components of p
StrictDescendant(p, d) ==
    LET cp == Components(p)
        cd == Components(d)
    IN  Len(cd) < Len(cp) /\ SubSeq(cp, 1, Len(cd)) = cd

\* The common path cp covers the entry path p
Covers(cp, p) == StartsWith(p, cp) \/ p \o SEP = cp

\* dir entries, then file entries, then remote entries
SchemeRank(url) ==
    IF SchemeOf(url) = DIR THEN 0 ELSE IF SchemeOf(url) = FILE THEN 1 ELSE 2

SchemeOrdered(l) ==
    \A i, j \in 1..Len(l) : i < j => SchemeRank(l[i]) <= SchemeRank(l[j])

\* No entry of l lies below a directory entry of l
NoEntryInsideDir(l) ==
    \A i, j \in 1..Len(l) :
        SchemeOf(l[i]) = DIR => ~StrictDescendant(PathOf(l[j]), PathOf(l[i]))

\* C1: common-path coverage. For every sorted dataset list, the list
\* returned by get_common_paths holds, for every local (dir or file) entry,
\* at least one path that is a prefix of, or equal to, the entry's path.
C1_CommonPathCoverage ==
    pc = "cp_done" =>
        \A i \in 1..Len(url_list) :
            IsLocal(url_list[i]) =>
                \E j \in 1..Len(list_common_paths) :
                    Covers(list_common_paths[j], PathOf(url_list[i]))

\* C2: common-path uniqueness. The list returned by get_common_paths holds no
\* path twice and no path that is a prefix of another returned path, so that
\* no local entry has two prefixes in it.
C2_CommonPathUnique ==
    pc = "cp_done" =>
        /\ \A i, j \in 1..Len(list_common_paths) :
               i # j => ~StartsWith(list_common_paths[i], list_common_paths[j])
        /\ \A k \in 1..Len(url_list) :
               IsLocal(url_list[k]) =>
                   Cardinality({j \in 1..Len(list_common_paths) :
                       Covers(list_common_paths[j], PathOf(url_list[k]))}) <= 1

\* C3 as stated: in every list returned by add_manual_datasets, whatever
\* schemes it holds, no entry lies below a directory entry of the same list.
C3_NoEntryInsideDirAnyList ==
    pc = "amd_done" => NoEntryInsideDir(data_list)

\* C3 as amended: in every list returned by add_manual_datasets that holds
\* at least one entry that is not a directory, no entry lies below a
\* directory entry of the same list (a list of directories only is returned
\* as it was sorted).
C3_NoEntryInsideDirMixedList ==
    (pc = "amd_done" /\ \E i \in 1..Len(data_list) :
                            SchemeOf(data_list[i]) # DIR)
        => NoEntryInsideDir(data_list)

\* C3 witness: a nested directory and a file were passed, the nested
\* directory was removed and the file was kept.
C3_Witness ==
    /\ pc = "amd_done"
    /\ Range(data_list_in) = {MkUrl(DIR, HOST, P_a \o SEP),
                              MkUrl(DIR, HOST, P_ab \o SEP),
                              MkUrl(FILE, HOST, P_cy)}
    /\ data_list = <<MkUrl(DIR, HOST, P_a \o SEP), MkUrl(FILE, HOST, P_cy)>>

\* C4: subsumption. After add_manual_datasets no file entry remains that
\* lies below a dir entry of the list; the list {dir /a/, file /a/x} becomes
\* {dir /a/}.
C4_Subsumption ==
    pc = "amd_done" =>
        /\ \A i, j \in 1..Len(data_list) :
               (SchemeOf(data_list[i]) = DIR /\ SchemeOf(data_list[j]) = FILE)
                   => ~StrictDescendant(PathOf(data_list[j]),
                                        PathOf(data_list[i]))
        /\ (/\ Range(data_list_in) = {MkUrl(DIR, HOST, P_a \o SEP),
                                      MkUrl(FILE, HOST, P_ax)}
            /\ DataEntitiesList(yaml_value) = <<>>)
               => data_list = <<MkUrl(DIR, HOST, P_a \o SEP)>>

\* C4 witness: the file /a/x was passed before the directory /a/ and is
\* gone from the returned list.
C4_Witness ==
    /\ pc = "amd_done"
    /\ data_list_in = <<MkUrl(FILE, HOST, P_ax), MkUrl(DIR, HOST, P_a \o SEP)>>
    /\ DataEntitiesList(yaml_value) = <<>>
    /\ data_list = <<MkUrl(DIR, HOST, P_a \o SEP)>>

\* C5: cross-list shadowing. After fix_in_files_at_out_dirs on sorted lists
\* no file entry remains in the inputs that lies below a dir entry of the
\* outputs; inputs {file /a/x} with outputs {dir /a/} become empty.
C5_CrossListShadowing ==
    pc = "fix_done" =>
        /\ \A i \in 1..Len(inputs_list), j \in 1..Len(outputs_list) :
               (SchemeOf(inputs_list[i]) = FILE
                    /\ SchemeOf(outputs_list[j]) = DIR)
                   => ~StrictDescendant(PathOf(inputs_list[i]),
                                        PathOf(outputs_list[j]))
        /\ (/\ data_list_in = <<MkUrl(FILE, HOST, P_ax)>>
            /\ outputs_list = <<MkUrl(DIR, HOST, P_a \o SEP)>>)
               => inputs_list = <<>>

\* C5 witness: two input files below an output directory that comes with a
\* file and a remote output; both are removed, the third input is kept.
C5_Witness ==
    /\ pc = "fix_done"
    /\ data_list_in = <<MkUrl(FILE, HOST, P_abx), MkUrl(FILE, HOST, P_ax),
                        MkUrl(FILE, HOST, P_cy)>>
    /\ outputs_list = <<MkUrl(DIR, HOST, P_a \o SEP), MkUrl(FILE, HOST, P_dy),
                        MkUrl(HTTPS, REMOTE, P_u)>>
    /\ inputs_list = <<MkUrl(FILE, HOST, P_cy)>>

\* C6: sort precondition. In the list returned by add_manual_datasets all
\* dir entries precede all file entries, which precede all remote entries,
\* and the list keeps that order through fix_in_files_at_out_dirs.
C6_SchemeOrder ==
    pc \in {"amd_done", "amd_fixed"} => SchemeOrdered(data_list)

\* C6 witness: an unordered runtime list and a remote declaration went
\* through both passes, and the result holds the three kinds of entries.
C6_Witness ==
    /\ pc = "amd_fixed"
    /\ ~SchemeOrdered(data_list_in)
    /\ \A r \in 0..2 : \E i \in 1..Len(data_list) : SchemeRank(data_list[i]) = r
    /\ Len(data_list) < Len(data_list_in) + Len(DataEntitiesList(yaml_value))

(***************************************************************************)
(* Properties of the main entity                                           *)
(***************************************************************************)
Returned == pc \in {"me_done", "me_raised"}

\* The first member of a list that ends with a suffix, NONE when none does
FirstWithSuffix(l, suffix) ==
    IF \E i \in 1..Len(l) : EndsWith(l[i], suffix)
    THEN l[CHOOSE i \in 1..Len(l) :
               /\ EndsWith(l[i], suffix)
               /\ \A j \in 1..(i - 1) : ~EndsWith(l[j], suffix)]
    ELSE NONE

\* The first member of a list that has a recognized source extension
FirstSourceFile(l) ==
    IF \E i \in 1..Len(l) : PathSuffix(l[i]) \in SourceSuffixes
    THEN l[CHOOSE i \in 1..Len(l) :
               /\ PathSuffix(l[i]) \in SourceSuffixes
               /\ \A j \in 1..(i - 1) : PathSuffix(l[j]) \notin SourceSuffixes]
    ELSE NONE

Override        == wf_info.sources_main_file
ResolvedSources == ListOfSources(wf_info)

\* (1) the override is itself an existing file
Tier1Applies == Override.present /\ IsFile(Override.value)
Tier1Result  == Resolve(Override.value)
\* (2) the override matches a resolved source file by suffix
Tier2Result  == FirstWithSuffix(ResolvedSources, Override.value)
Tier2Applies == Override.present /\ Tier2Result # NONE
\* (3) the log-derived candidate matches a resolved source file by suffix
Tier3Result  == FirstWithSuffix(ResolvedSources, DetectedApp(second_line))
Tier3Applies == Tier3Result # NONE
\* (4) the log-derived candidate is a file of the working directory
Tier4Result  == DetectedAppNoSources(second_line)
Tier4Applies == IsFile(Tier4Result)
\* (5) a resolved source file has a recognized source extension
Tier5Result  == FirstSourceFile(ResolvedSources)
Tier5Applies == Tier5Result # NONE

Returns(path) == raised = "none" /\ main_entity = path

\* Some declared source exists and is not a plain file
SomeSourceDirectory ==
    \E i \in 1..Len(YamlSourcesList(wf_info)) :
        /\ PathExists(YamlSourcesList(wf_info)[i])
        /\ ~IsFile(YamlSourcesList(wf_info)[i])

NoTierApplies ==
    ~Tier1Applies /\ ~Tier2Applies /\ ~Tier3Applies /\ ~Tier4Applies
        /\ ~Tier5Applies

\* C8 as stated: when no tier applies get_main_entities fails and returns no
\* MainEntity, also when the resolved source list is not empty.
C8_FatalWhenNoTier ==
    (Returned /\ NoTierApplies) => (raised # "none" /\ main_entity = NONE)

\* C8 as amended: when no tier applies get_main_entities fails and returns
\* no MainEntity if the resolved source list is empty; if it is not empty the
\* first resolved source file is returned as MainEntity.
C8_FatalWhenNoTierAndNoSource ==
    (Returned /\ NoTierApplies) =>
        IF ResolvedSources = <<>>
        THEN raised # "none" /\ main_entity = NONE
        ELSE Returns(ResolvedSources[1])

\* C8 witness: sources are declared, none of them exists, the candidate is
\* nowhere, and the call failed.
C8_Witness ==
    /\ pc = "me_raised"
    /\ NoTierApplies
    /\ YamlSourcesList(wf_info) # <<>>
    /\ Override.present
    /\ raised = "FileNotFoundError"

\* C9: when the manifest declares no source (the keys are absent, or present
\* with an empty list), get_main_entities returns the log-derived candidate
\* of the working directory when that file exists, and fails only when it
\* does not. (Stated for manifests without sources_main_file.)
C9_EmptySourcesFallBack ==
    (Returned /\ YamlSourcesList(wf_info) = <<>> /\ ~Override.present) =>
        IF Tier4Applies
        THEN raised = "none" /\ Resolve(main_entity) = Resolve(Tier4Result)
        ELSE raised # "none"

\* C10: every MainEntity returned is an absolute path and names an existing
\* file; get_main_entities never returns without one.
C10_MainEntityAbsoluteFile ==
    pc = "me_done" =>
        /\ main_entity # NONE
        /\ main_entity[1] = "/"
        /\ IsFile(main_entity)

\* The override names nothing: it is no path of the file system, directly or
\* under a declared source, and no resolved source file ends with it
OverrideDoesNotExist ==
    /\ Override.present
    /\ ~PathExists(Override.value)
    /\ \A i \in 1..Len(YamlSourcesList(wf_info)) :
           ~PathExists(PathJoin(Resolve(YamlSourcesList(wf_info)[i]),
                                Override.value))
    /\ ~Tier2Applies

\* C11: when sources_main_file names a path that does not exist, directly or
\* inside a declared source, and the candidate of the log is among the resolved
\* sources, get_main_entities returns the candidate's source file, warns that
\* the override was not found, and does not fail.
C11_MissingOverrideFallsBackToDetected ==
    (Returned /\ OverrideDoesNotExist /\ Tier3Applies) =>
        /\ raised = "none"
        /\ main_entity = Tier3Result
        /\ OverrideNotFoundWarning(wf_info)

C11_Witness ==
    /\ pc = "me_done"
    /\ OverrideDoesNotExist /\ Tier3Applies
    /\ Override.value = N_zpy
    /\ SomeSourceDirectory
    /\ main_entity = Tier3Result
    /\ EndsWith(main_entity, DetectedApp(second_line))
    /\ OverrideNotFoundWarning(wf_info)

(***************************************************************************)
(* Properties of the dataset assembly                                      *)
(***************************************************************************)
\* The entries handed to add_dataset_file_to_crate so far, with what it
\* returned for each
AddedEntries ==
    {<<inputs_list[i], fixed_ins[i]>> : i \in 1..Len(fixed_ins)}
        \cup {<<outputs_list[i], fixed_outs[i]>> : i \in 1..Len(fixed_outs)}

\* The path p relative to the directory d it lies below
RelativeTo(p, d) ==
    LET rest == SubSeq(Components(p), Len(Components(d)) + 1,
                       Len(Components(p)))
    IN  Tail(JoinTail(rest))

\* dest is the place under "dataset/" of the path p, for one of the common
\* paths
PlacedUnderDataset(p, dest, common_paths) ==
    /\ StartsWith(dest, DATASET)
    /\ \E j \in 1..Len(common_paths) :
           /\ StrictDescendant(p, common_paths[j])
           /\ EndsWith(dest, RelativeTo(p, common_paths[j]))

\* C12: in persist mode every file entry of a build finds a matching common
\* path, and add_dataset_file_to_crate returns a destination that starts with
\* "dataset/" and ends with the entry's path relative to that common path;
\* no file entry gets an empty destination.
C12_FileDestinationUnderDataset ==
    (pc = "build_add" /\ persistence) =>
        \A e \in AddedEntries :
            SchemeOf(e[1]) = FILE =>
                /\ e[2] # <<>>
                /\ PlacedUnderDataset(PathOf(e[1]), e[2], list_common_paths)

\* C12 for the builds that call the get_common_paths of main's own file
C12_FileDestinationUnderDatasetMain ==
    common_paths_impl = "main" => C12_FileDestinationUnderDataset

\* C13: in persist mode no destination path is registered twice: no two
\* add_file / add_dataset calls of a build carry the same destination, so a
\* file inside a directory that is added is not added again on its own, and
\* two directories with the same base name do not end at the same place.
C13_NoDuplicateDestination ==
    (pc = "build_add" /\ persistence) =>
        \A i, j \in 1..Len(crate_calls) :
            i # j => crate_calls[i].dest # crate_calls[j].dest

\* Every path of the list ends with the separator
AllEndWithSeparator(paths) ==
    \A i \in 1..Len(paths) : paths[i][Len(paths[i])] = "/"

\* C14: every path returned by get_common_paths ends with "/", for every
\* sorted list, in utils/common_paths.py and in generate_COMPSs_RO-Crate.py.
C14_CommonPathsEndWithSeparator ==
    pc \in {"cp_done", "cp_main_done"} =>
        AllEndWithSeparator(list_common_paths)

\* The list without its remote (http, https) entries
LocalEntries(l) == SelectSeq(l, IsLocal)

\* C15: remote entries never contribute a common path. For every sorted list
\* get_common_paths returns what it returns for the list without its remote
\* entries, so that no returned path comes from the path of a remote URL.
C15_RemoteEntriesIgnored ==
    pc = "cp_done" =>
        list_common_paths = get_common_paths(LocalEntries(url_list))

\* How many times x occurs in the list l
Occurrences(l, x) == Cardinality({i \in 1..Len(l) : l[i] = x})

\* C16: merge dedup. add_manual_datasets appends no declared entry whose URL
\* is already in the list: every URL of the merged list occurs in it no more
\* often than in the runtime-detected list, or once when it was not there.
C16_MergeDedup ==
    pc = "amd_done" =>
        \A u \in Range(data_list) :
            Occurrences(data_list, u) <=
                (IF Occurrences(data_list_in, u) = 0 THEN 1
                 ELSE Occurrences(data_list_in, u))

\* A declared entry that names something that is neither a file nor a
\* directory: a special file, or a symbolic link whose target was removed
NeitherFileNorDirectory(item) ==
    /\ ~StartsWith(urlsplit(item).scheme, HTTP)
    /\ Resolve(item) \in FsOther \cup FsBrokenLinks

DeclaresNeitherFileNorDirectory ==
    \E i \in 1..Len(DataEntitiesList(yaml_value)) :
        NeitherFileNorDirectory(DataEntitiesList(yaml_value)[i])

\* C17: a declared inputs/outputs entry that is neither a file nor a
\* directory, a broken symbolic link included, makes add_manual_datasets
\* raise, which ends the build; it is not skipped with a warning.
C17_NeitherFileNorDirectoryIsFatal ==
    (pc \in {"amd_done", "amd_raised", "amd_fixed"}
        /\ DeclaresNeitherFileNorDirectory)
        => (pc = "amd_raised" /\ raised = "FileNotFoundError")


(***************************************************************************)
(* Properties of the run record                                            *)
(***************************************************************************)
RunEnded == pc \in {"run_done", "run_raised"}

\* The Agent declaration names somebody, or nobody, without failing
AgentSelected == SelectAgent(yaml_agent, author_list).raised = "none"

\* The console logs of the job are where the job left them
JobLogsPresent == job_id # <<>> => job_logs

\* What each source yields: a sequence of at most one instant
LogStart ==
    IF Len(dp_log) >= 4 /\ strptime(dp_log[4], LOG_FORMAT).ok
    THEN <<WholeSecond(strptime(dp_log[4], LOG_FORMAT).t)>>
    ELSE <<>>

LogEnd ==
    LET last == strptime(LastLine(dp_log, 0, Text(<<>>)), LOG_FORMAT)
    IN  IF last.ok THEN <<WholeSecond(last.t)>> ELSE <<>>

AccountingStart ==
    IF job_id # <<>> /\ sacct.kind = "output"
       /\ strptime(sacct.output, SACCT_FORMAT).ok
    THEN <<strptime(sacct.output, SACCT_FORMAT).t>>
    ELSE <<>>

\* C18: the run record always has a startTime and an endTime, each from the
\* first source that yields a value: the execution log (line 4, the line at
\* the end of the file), else the accounting of the job, else the wall clock
C18_StartEndTimeFallback ==
    (RunEnded /\ AgentSelected /\ JobLogsPresent) =>
        /\ create_action # <<>>
        /\ create_action[1].startTime # <<>>
        /\ create_action[1].endTime # <<>>
        /\ LogStart # <<>> => create_action[1].startTime = LogStart
        /\ (LogStart = <<>> /\ AccountingStart # <<>>) =>
               create_action[1].startTime = AccountingStart
        /\ LogEnd # <<>> => create_action[1].endTime = LogEnd
        /\ LogEnd = <<>> => create_action[1].endTime = <<end_time>>

\* The order of C18 among the runs where the log or the accounting gives a
\* start time
StartEndTimeFallbackWhenStartKnown ==
    (RunEnded /\ AgentSelected /\ JobLogsPresent /\ raised = "none") =>
        C18_StartEndTimeFallback

\* C19: with a valid header, no job id, and a fourth line that is missing or
\* is not a timestamp, wrroc_create_action produces a run record and does
\* not raise
C19_MalformedLogDoesNotRaise ==
    (RunEnded /\ AgentSelected /\ job_id = <<>> /\ LogStart = <<>>) =>
        raised = "none" /\ create_action # <<>>

\* C20: with a job id, when the accounting query fails or prints something
\* that is not a timestamp, the run record is still completed; the query is
\* issued once, and not at all without a job id
C20_AccountingFailureIsSkipped ==
    /\ (RunEnded /\ AgentSelected /\ JobLogsPresent /\ job_id # <<>>
            /\ QueryAccounting(sacct).raised # "none") =>
           raised = "none" /\ create_action # <<>>
    /\ (RunEnded /\ AgentSelected) => sacct_calls = IF job_id = <<>> THEN 0 ELSE 1
    /\ sacct_calls <= 1

\* The part of C20 about how often the query is issued
AccountingIssuedOncePerJob ==
    /\ (RunEnded /\ AgentSelected) => sacct_calls = IF job_id = <<>> THEN 0 ELSE 1
    /\ sacct_calls <= 1


(***************************************************************************)
(* Properties of the root entity                                           *)
(***************************************************************************)
AuthorsOfManifest ==
    IF ~yaml_authors.present THEN <<>>
    ELSE IF yaml_authors.is_list THEN yaml_authors.value
    ELSE <<yaml_authors.value>>

\* The identifiers of a list of authors, each once, in the order of their
\* first occurrence
RECURSIVE Identifiers(_, _)
Identifiers(authors, seen) ==
    IF authors = <<>> THEN seen
    ELSE Identifiers(Tail(authors),
             IF Head(authors).has_orcid /\ Head(authors).orcid \notin Range(seen)
             THEN Append(seen, Head(authors).orcid) ELSE seen)

Unidentifieds(authors) ==
    Cardinality({i \in 1..Len(authors) : ~authors[i].has_orcid})

\* C21: root_entity registers every author that carries an orcid exactly
\* once as creator, in manifest order, and drops with a warning every author
\* that has none, whatever the other entries are, also when an orcid occurs
\* more than once
C21_EveryIdentifiedAuthorRegisteredOnce ==
    pc = "root_done" =>
        /\ author_list = Identifiers(AuthorsOfManifest, <<>>)
        /\ creator = IF author_list = <<>> THEN <<>> ELSE <<author_list>>
        /\ ignored = Unidentifieds(AuthorsOfManifest)
        /\ raised = "none"

\* The same for the manifests in which no orcid occurs twice
OrcidsDistinct ==
    \A i, j \in 1..Len(AuthorsOfManifest) :
        (i # j /\ AuthorsOfManifest[i].has_orcid
               /\ AuthorsOfManifest[j].has_orcid) =>
            AuthorsOfManifest[i].orcid # AuthorsOfManifest[j].orcid

EveryIdentifiedAuthorRegisteredWhenDistinct ==
    OrcidsDistinct => C21_EveryIdentifiedAuthorRegisteredOnce


(***************************************************************************)
(* Properties of the agent, the links and the statistics of the run record *)
(***************************************************************************)
\* Nothing but the Agent declaration can stop the call: a start time is
\* known, the accounting answers, the console logs are there
RunOtherwiseCompletes ==
    /\ LogStart # <<>> \/ AccountingStart # <<>>
    /\ job_id # <<>> => QueryAccounting(sacct).raised = "none"
    /\ JobLogsPresent

\* The person the manifest declares as Agent (the first one of a list), when
\* that person carries an orcid
ValidManifestAgent ==
    IF ~yaml_agent.present THEN <<>>
    ELSE IF yaml_agent.is_list
    THEN IF yaml_agent.value # <<>> /\ yaml_agent.value[1].has_orcid
         THEN <<yaml_agent.value[1].orcid>> ELSE <<>>
    ELSE IF yaml_agent.value.has_orcid THEN <<yaml_agent.value.orcid>>
    ELSE <<>>

ExpectedAgent ==
    IF ValidManifestAgent # <<>> THEN ValidManifestAgent
    ELSE IF author_list # <<>> THEN <<author_list[1]>>
    ELSE <<>>

\* C22: the run record has at most one agent, the valid manifest Agent, else
\* the first registered author, else none; a missing, invalid or list-valued
\* Agent never aborts the call
C22_AgentSelection ==
    (RunEnded /\ RunOtherwiseCompletes) =>
        /\ raised = "none"
        /\ create_action # <<>>
        /\ Len(create_action[1].agent) <= 1
        /\ create_action[1].agent = ExpectedAgent

\* The same for every Agent declaration but the empty list
AgentIsEmptyList ==
    yaml_agent.present /\ yaml_agent.is_list /\ yaml_agent.value = <<>>

AgentSelectionUnlessEmptyList == ~AgentIsEmptyList => C22_AgentSelection


\* A dir-scheme URL as the file-scheme URL of the same host and path, the
\* path ending in "/"; any other entry as it is
Rewritten(entry) ==
    LET u == urlsplit(entry)
    IN  IF u.scheme = DIR
        THEN MkUrl(FILE, u.netloc,
                   IF EndsWith(u.path, SEP) THEN u.path ELSE u.path \o SEP)
        ELSE entry

NoDirScheme(links) == \A i \in 1..Len(links) : urlsplit(links[i]).scheme # DIR

SELF_REFERENCE == <<".", "/">>         \* "./", the crate itself

\* C23: object holds the inputs passed in, in order, result the outputs
\* passed in followed by "./"; every dir-scheme URL is rewritten as the
\* file-scheme URL of the same host and path ending in "/", and no
\* dir-scheme identifier remains
C23_ObjectAndResultLinks ==
    (RunEnded /\ create_action # <<>>) =>
        /\ create_action[1].object =
               [i \in 1..Len(fixed_ins) |-> Rewritten(fixed_ins[i])]
        /\ create_action[1].result =
               [i \in 1..Len(fixed_outs) |-> Rewritten(fixed_outs[i])]
                   \o <<SELF_REFERENCE>>
        /\ NoDirScheme(create_action[1].object)
        /\ NoDirScheme(create_action[1].result)

C23_Witness ==
    /\ pc = "run_done"
    /\ create_action # <<>>
    /\ \E i \in 1..Len(fixed_ins) :
           /\ urlsplit(fixed_ins[i]).scheme = DIR
           /\ ~EndsWith(fixed_ins[i], SEP)
    /\ \E i \in 1..Len(fixed_outs) : urlsplit(fixed_outs[i]).scheme = DIR


\* The value of a statistic that is not there: no literal at all
NO_VALUE == <<>>

\* The rows of the log that count executions, by their position among the
\* resource-usage items
ExecutionRows ==
    {i \in 1..Len(StatRows(dp_log, 0)) :
        /\ StatRows(dp_log, 0)[i][3] = "executions"
        /\ PyInt(StatRows(dp_log, 0)[i][4]).ok}

\* C24: an "executions" statistic whose parsed value is 0 carries an absent
\* value, not zero and not any other literal; a non-zero count carries that
\* count
C24_ZeroExecutionsIsAbsent ==
    (RunEnded /\ create_action # <<>>) =>
        \A i \in ExecutionRows :
            LET count == PyInt(StatRows(dp_log, 0)[i][4]).value
                item  == create_action[1].resourceUsage[i]
            IN  /\ item.name = "executions"
                /\ item.value = IF count = 0 THEN NO_VALUE
                                ELSE IntToStr(count)

\* The same for the counts that are not zero
NonZeroExecutionsKeepCount ==
    (RunEnded /\ create_action # <<>>) =>
        \A i \in ExecutionRows :
            LET count == PyInt(StatRows(dp_log, 0)[i][4]).value
            IN  count # 0 =>
                    create_action[1].resourceUsage[i].value = IntToStr(count)


(***************************************************************************)
(* Properties of the override written relative to a declared source        *)
(***************************************************************************)
\* The files the override names when it is joined with a declared source
\* directory
OverrideInDeclaredSource ==
    {PathJoin(Resolve(YamlSourcesList(wf_info)[i]), Override.value) :
        i \in {j \in 1..Len(YamlSourcesList(wf_info)) :
                 /\ IsDir(YamlSourcesList(wf_info)[j])
                 /\ IsFile(PathJoin(Resolve(YamlSourcesList(wf_info)[j]),
                                    Override.value))}}

OverrideIsRelativeToSource ==
    /\ Override.present
    /\ Override.value[1] # "/"
    /\ ~Tier1Applies
    /\ OverrideInDeclaredSource # {}

\* C26: an override written relative to a declared source directory, naming
\* an existing file there, makes get_main_entities return exactly that file,
\* whatever other source files end with the same string and whatever the
\* order of the sources
C26_RelativeOverrideIsExact ==
    (Returned /\ OverrideIsRelativeToSource) =>
        /\ raised = "none"
        /\ main_entity \in OverrideInDeclaredSource

\* The same when the files the override names are the only resolved sources
\* that end with it
OnlyNamedFilesEndWithOverride ==
    \A i \in 1..Len(ResolvedSources) :
        EndsWith(ResolvedSources[i], Override.value) =>
            ResolvedSources[i] \in OverrideInDeclaredSource

RelativeOverrideIsExactWhenUnambiguous ==
    (Returned /\ OverrideIsRelativeToSource /\ OnlyNamedFilesEndWithOverride)
        => (raised = "none" /\ main_entity \in OverrideInDeclaredSource)


(***************************************************************************)
(* Properties of the match of the log-derived candidate                    *)
(***************************************************************************)
\* The candidate is what decides: sources are declared, there is no
\* override, and some resolved source ends with the candidate
SelectedByCandidate ==
    /\ ~NoSourcesKey(wf_info)
    /\ ~Override.present
    /\ Tier3Applies

\* The trailing path components of a file are those of the candidate
TrailingComponentsAre(file, candidate) == EndsWith(file, SEP \o candidate)

\* C30: when MainEntity is selected by matching the log-derived candidate
\* against the resolved sources, the trailing path components of the
\* selected file equal the candidate; a file whose name only ends with the
\* candidate string is never selected
C30_CandidateMatchesWholeComponents ==
    (Returned /\ SelectedByCandidate) =>
        /\ raised = "none"
        /\ TrailingComponentsAre(main_entity, DetectedApp(second_line))

\* The same when every resolved source that ends with the candidate string
\* ends with it as whole components
CandidateMatchesWhenNoLongerName ==
    (\A i \in 1..Len(ResolvedSources) :
         EndsWith(ResolvedSources[i], DetectedApp(second_line)) =>
             TrailingComponentsAre(ResolvedSources[i],
                                   DetectedApp(second_line)))
        => C30_CandidateMatchesWholeComponents


(***************************************************************************)
(* Properties of what add_manual_datasets removes                          *)
(***************************************************************************)
\* The list before the removal pass: the runtime list, the declared entries
\* appended, sorted
MergedList ==
    Sort(AppendDeclared(DataEntitiesList(yaml_value), data_list_in).data_list)

\* A file:// entry whose path lies inside a dir:// entry of the list
FileInsideDirOf(entry, l) ==
    /\ SchemeOf(entry) = FILE
    /\ \E k \in 1..Len(l) :
           /\ SchemeOf(l[k]) = DIR
           /\ StrictDescendant(PathOf(entry), PathOf(l[k]))

\* The entries of rest that are not such files, in their order
RECURSIVE WithoutFilesInside(_, _)
WithoutFilesInside(rest, l) ==
    IF rest = <<>> THEN <<>>
    ELSE IF FileInsideDirOf(Head(rest), l)
    THEN WithoutFilesInside(Tail(rest), l)
    ELSE <<Head(rest)>> \o WithoutFilesInside(Tail(rest), l)

\* C27: add_manual_datasets removes exactly the file:// entries whose path
\* lies inside a dir:// entry of the list; it removes no dir:// entry and no
\* remote entry, and the entries it keeps keep their order
C27_RemovesExactlyFilesInsideDirs ==
    pc = "amd_done" => data_list = WithoutFilesInside(MergedList, MergedList)

\* The same for the lists in which nothing but a file lies inside a directory
OnlyFilesInsideDirs ==
    \A i, k \in 1..Len(MergedList) :
        (/\ SchemeOf(MergedList[k]) = DIR
         /\ StartsWith(PathOf(MergedList[i]), PathOf(MergedList[k]))
         /\ PathOf(MergedList[i]) # PathOf(MergedList[k]))
            => SchemeOf(MergedList[i]) = FILE

RemovesExactlyFilesWhenOnlyFilesInside ==
    OnlyFilesInsideDirs => C27_RemovesExactlyFilesInsideDirs

\* A remote entry was removed
RemoteEntryRemoved ==
    /\ pc = "amd_done"
    /\ \E i \in 1..Len(MergedList) :
           /\ ~IsLocal(MergedList[i])
           /\ MergedList[i] \notin Range(data_list)

(***************************************************************************)
(* The main workflow entity and the registered source files                *)
(***************************************************************************)
SourcesRegistered == pc = "src_done"

\* The calls that registered a main workflow entity
WorkflowCalls ==
    {i \in 1..Len(crate_calls) : crate_calls[i].op = "add_workflow"}

\* C28: whenever get_main_entities and add_application_source_files both
\* complete, the crate holds exactly one main workflow entity, registered
\* through add_workflow, and it is the file resolved as the main entity,
\* also when the main entity is a sources_main_file outside every declared
\* source while the declared sources are not empty
C28_OneMainWorkflowEntity ==
    SourcesRegistered =>
        /\ Cardinality(WorkflowCalls) = 1
        /\ \A i \in WorkflowCalls : crate_calls[i].source = main_entity

\* The main entity is one of the files the registration went through
MainEntityAmongSources ==
    YamlSourcesList(wf_info) = <<>> \/ InSeq(main_entity, added_files)

\* The same holds whenever the main entity is among the traversed sources
OneMainWorkflowEntityWhenAmongSources ==
    (SourcesRegistered /\ MainEntityAmongSources) =>
        /\ Cardinality(WorkflowCalls) = 1
        /\ \A i \in WorkflowCalls : crate_calls[i].source = main_entity

\* A run with declared sources and an override outside them completed
OverrideOutsideSourcesRegistered ==
    /\ SourcesRegistered
    /\ YamlSourcesList(wf_info) # <<>>
    /\ main_entity = P_pdm

\* The existing declared sources, resolved
DeclaredSources ==
    LET sources_list == YamlSourcesList(wf_info)
    IN  {Resolve(sources_list[i]) :
            i \in {j \in 1..Len(sources_list) : PathExists(sources_list[j])}}

\* The regular files found under the declared sources, leaving out the
\* __pycache__ directories and the names starting with '*'
FilesUnderSources ==
    {f \in FsFiles :
        /\ \E d \in DeclaredSources : f = d \/ (IsDir(d) /\ StrictDescendant(f, d))
        /\ ~Contains(PathParent(f), PYCACHE)
        /\ ~StartsWith(BaseName(f), WILDCARD)}

\* How many times a file was registered in the crate
Registrations(f) ==
    Cardinality({i \in 1..Len(crate_calls) : crate_calls[i].source = f})

\* C29: add_application_source_files registers every regular file found
\* under each existing declared source exactly once, for every order and
\* overlap of the declared sources
C29_EverySourceFileRegisteredOnce ==
    SourcesRegistered => \A f \in FilesUnderSources : Registrations(f) = 1

\* No file is ever registered twice
NoSourceFileRegisteredTwice ==
    SourcesRegistered => \A f \in FilesUnderSources : Registrations(f) <= 1

\* A declared directory whose name continues, as a string, the name of a
\* directory declared before it, without lying inside it
SiblingSharesPrefix ==
    LET sources_list == YamlSourcesList(wf_info)
    IN  \E i, j \in 1..Len(sources_list) :
            /\ i < j
            /\ IsDir(sources_list[i]) /\ IsDir(sources_list[j])
            /\ StartsWith(Resolve(sources_list[j]), Resolve(sources_list[i]))
            /\ Resolve(sources_list[j]) # Resolve(sources_list[i])
            /\ ~StrictDescendant(Resolve(sources_list[j]),
                                 Resolve(sources_list[i]))

\* Every file is registered once unless a sibling shares a prefix
EverySourceFileRegisteredOnceWithoutSiblings ==
    (SourcesRegistered /\ ~SiblingSharesPrefix) =>
        \A f \in FilesUnderSources : Registrations(f) = 1

\* The files of the sibling directory were left out
SiblingFilesNotRegistered ==
    /\ SourcesRegistered
    /\ SiblingSharesPrefix
    /\ Registrations(P_eszn) = 0

(***************************************************************************)
(* The crate is written once, after every step                             *)
(***************************************************************************)
\* The steps of main, in the order of its calls
MainSteps ==
    <<"manifest", "root_entity", "main_entity", "accessed_files", "sources",
      "classification", "assembly", "run_record">>

\* The steps the crate is built by, the reading of the accessed files left
\* out
BuildSteps ==
    <<"manifest", "root_entity", "main_entity", "sources", "classification",
      "assembly", "run_record">>

CompletedBuildSteps == SelectSeq(completed, LAMBDA x : x # "accessed_files")

\* C25: in every run of main, compss_crate.write is invoked at most once
\* and only after manifest loading, root-entity creation, main-entity
\* resolution, source registration, dataset classification, dataset
\* assembly and run-record creation have all completed, in that order; if
\* any of these steps raises, write is never invoked and no partial graph
\* is written
C25_WriteOnceAfterEveryStep ==
    /\ writes <= 1
    /\ Len(completed) <= Len(MainSteps)
    /\ completed = SubSeq(MainSteps, 1, Len(completed))
    /\ writes = 1 =>
           /\ CompletedBuildSteps = BuildSteps
           /\ written = <<[calls |-> crate_calls,
                           create_action |-> create_action]>>
    /\ raised # "none" => (writes = 0 /\ written = <<>>)

\* A run in which every step completed and the crate, with the source
\* files, the datasets and the run record, was written
C25_Witness ==
    /\ writes = 1
    /\ pc = "main_done"
    /\ \E i \in 1..Len(crate_calls) : crate_calls[i].op = "add_workflow"
    /\ \E i \in 1..Len(crate_calls) : crate_calls[i].op = "add_dataset"
    /\ create_action # <<>>

\* A run that raised while the crate already held entities
RaisedWithPartialGraph ==
    /\ pc = "main_raised"
    /\ crate_calls # <<>>

\* A run in which the run record was added and the job logs were missing
RaisedAfterRunRecord ==
    /\ pc = "main_raised"
    /\ create_action # <<>>

====
